---------------------------- MODULE Spec2Model ----------------------------
(***************************************************************************)
(* Pane / workspace engine of brwsr: the split tree of a Window, the       *)
(* per-pane transient state maps, the WorkspaceManager and the             *)
(* before-input-event key dispatcher, modelled as a state machine.         *)
(*                                                                         *)
(* Objects with identity: a Leaf object is identified by its id; a Split   *)
(* object carries an object id (oid) so that in-place mutation             *)
(* (replaceChild, split.size = ...) reaches every tree that shares the     *)
(* object, and so that a reference taken before an await can go stale.     *)
(* Ratios (Split.size) are kept in hundredths: 0.5 is 50, the step 0.03    *)
(* is 3 and the clamp [0.05, 0.95] is [5, 95].                             *)
(***************************************************************************)
EXTENDS Integers, Sequences, FiniteSets, TLC

(* ------------------------------ bounds -------------------------------- *)
\* panes the allocator may hand out in a run of the structural specification
MaxPanes == 4
\* resize requests explored in one run
MaxNudges == 1
\* Workspace objects created in one run (the first included)
MaxWorkspaces == 3
\* switchToWorkspace calls suspended at the same time
MaxPendingSwitches == 2
\* switchToWorkspace requests explored in one run
MaxSwitches == 3
\* largest workspace index a caller asks for
MaxIndex == 2
\* key events of one run
MaxKeys == 3
\* messages in flight to one page, or to the main process
MaxQueue == 2
\* hint characters typed in one hint-mode session
MaxTyped == 2
\* clickable targets of a page that fits one-character labels
MaxTargets == 3

(* ------------------------- program constants -------------------------- *)
PANE_GUTTER == 1
ViewW == 1200
ViewH == 800
SizeHalf == 50
NudgeStep == 3
SizeMin == 5
SizeMax == 95

Ids == 1..MaxPanes
\* an id no pane ever has (a caller passing garbage)
UnknownId == MaxPanes + 1
\* object ids for Split objects; an oid is reused only when nothing refers
\* to the object any more
Oids == 1..(3 * MaxPanes)

NoId == 0
Null == [kind |-> "null"]
Leaf(i) == [kind |-> "leaf", id |-> i]
MkSplit(o, d, s, x, y) ==
    [kind |-> "split", oid |-> o, dir |-> d, size |-> s, a |-> x, b |-> y]

Dirs == {"left", "right", "up", "down"}
\* the (dir, side) pairs the split bindings send (shift+h/l/k/j)
SplitArgs == { <<"vertical", "left">>, <<"vertical", "right">>,
               <<"horizontal", "up">>, <<"horizontal", "down">> }

(* --------------------------- tree operators --------------------------- *)
RECURSIVE LeafSeq(_)
LeafSeq(node) ==
    IF node.kind = "leaf" THEN << node.id >>
    ELSE IF node.kind = "split" THEN LeafSeq(node.a) \o LeafSeq(node.b)
    ELSE << >>

SeqToSet(s) == { s[i] : i \in 1..Len(s) }
LeafSet(node) == SeqToSet(LeafSeq(node))

RECURSIVE OidSet(_)
OidSet(node) ==
    IF node.kind = "split" THEN {node.oid} \cup OidSet(node.a) \cup OidSet(node.b)
    ELSE {}

\* a Split with a null child: layout, findParent and containsNode dereference
\* node.kind of the null child and throw a TypeError
RECURSIVE HasNullChild(_)
HasNullChild(node) ==
    IF node.kind = "split"
    THEN \/ node.a.kind = "null" \/ node.b.kind = "null"
         \/ HasNullChild(node.a) \/ HasNullChild(node.b)
    ELSE FALSE

\* every Split has two non-null children and every fringe node is a Leaf
RECURSIVE WellFormed(_)
WellFormed(node) ==
    IF node.kind = "leaf" THEN TRUE
    ELSE IF node.kind = "split" THEN WellFormed(node.a) /\ WellFormed(node.b)
    ELSE FALSE

\* findParent: 0 is null (the id is the root leaf or absent), -1 is the
\* TypeError thrown when the search reaches a null child first
RECURSIVE FindParentFrom(_, _, _)
FindParentFrom(node, childId, parent) ==
    IF node.kind = "null" THEN -1
    ELSE IF node.kind = "leaf" THEN (IF node.id = childId THEN parent ELSE 0)
    ELSE LET ra == FindParentFrom(node.a, childId, node.oid)
         IN  IF ra # 0 THEN ra ELSE FindParentFrom(node.b, childId, node.oid)

findParent(node, childId) == FindParentFrom(node, childId, 0)

\* replaceChild on the Split object `parent`, seen through tree `node`
RECURSIVE replaceChildIn(_, _, _, _)
replaceChildIn(node, parent, prev, next) ==
    IF node.kind # "split" THEN node
    ELSE IF node.oid = parent
         THEN IF node.a = prev THEN [node EXCEPT !.a = next]
              ELSE [node EXCEPT !.b = next]
         ELSE [node EXCEPT !.a = replaceChildIn(node.a, parent, prev, next),
                           !.b = replaceChildIn(node.b, parent, prev, next)]

\* split.size = v on the Split object `oid`, seen through tree `node`
RECURSIVE setSizeIn(_, _, _)
setSizeIn(node, oid, v) ==
    IF node.kind # "split" THEN node
    ELSE IF node.oid = oid THEN [node EXCEPT !.size = v]
         ELSE [node EXCEPT !.a = setSizeIn(node.a, oid, v),
                           !.b = setSizeIn(node.b, oid, v)]

\* replaceNode: `free` is the sequence of unused oids; each {...node} copy
\* takes the next one.  Result: the node (or Null) and the oids left.
RECURSIVE ReplaceNodeAlloc(_, _, _)
ReplaceNodeAlloc(node, targetId, free) ==
    IF node.kind = "leaf"
    THEN [n |-> IF node.id = targetId THEN Null ELSE node, free |-> free]
    ELSE IF node.kind = "null" THEN [n |-> Null, free |-> free]
    ELSE LET ra == ReplaceNodeAlloc(node.a, targetId, free)
             rb == ReplaceNodeAlloc(node.b, targetId, ra.free)
             a2 == ra.n
             b2 == rb.n
         IN  IF a2 = node.a /\ b2 = node.b THEN [n |-> node, free |-> rb.free]
             ELSE IF a2 = Null /\ b2 # Null THEN [n |-> b2, free |-> rb.free]
             ELSE IF b2 = Null /\ a2 # Null THEN [n |-> a2, free |-> rb.free]
             ELSE [n |-> [node EXCEPT !.oid = Head(rb.free), !.a = a2, !.b = b2],
                   free |-> Tail(rb.free)]

RECURSIVE SortedSeq(_)
SortedSeq(S) ==
    IF S = {} THEN << >>
    ELSE LET m == CHOOSE x \in S : \A y \in S : x <= y
         IN  << m >> \o SortedSeq(S \ {m})

\* a removal that hands the tree back as it was
replaceNode_same(node, targetId, used) == node

replaceNode(node, targetId, used) ==
    ReplaceNodeAlloc(node, targetId, SortedSeq(Oids \ used)).n

RECURSIVE containsNode(_, _)
containsNode(node, id) ==
    IF node.kind = "leaf" THEN node.id = id
    ELSE IF node.kind = "split" THEN containsNode(node.a, id) \/ containsNode(node.b, id)
    ELSE FALSE

\* findSplitForResize: the record of the found Split, or oid 0 for null
NoSplit == [oid |-> 0, isInA |-> FALSE, size |-> 0]
\* a search that stops at the outermost Split of the axis on the path
RECURSIVE findSplitForResize_outer(_, _, _)
findSplitForResize_outer(node, targetId, axis) ==
    IF node.kind # "split" THEN NoSplit
    ELSE LET inA == containsNode(node.a, targetId)
             inB == ~inA /\ containsNode(node.b, targetId)
         IN  IF ~inA /\ ~inB THEN NoSplit
             ELSE IF node.dir = axis
                  THEN [oid |-> node.oid, isInA |-> inA, size |-> node.size]
                  ELSE findSplitForResize_outer(IF inA THEN node.a ELSE node.b,
                                                targetId, axis)

RECURSIVE findSplitForResize(_, _, _)
findSplitForResize(node, targetId, axis) ==
    IF node.kind # "split" THEN NoSplit
    ELSE LET inA == containsNode(node.a, targetId)
             inB == ~inA /\ containsNode(node.b, targetId)
         IN  IF ~inA /\ ~inB THEN NoSplit
             ELSE LET deeper == findSplitForResize(IF inA THEN node.a ELSE node.b,
                                                   targetId, axis)
                  IN  IF deeper.oid # 0 THEN deeper
                      ELSE IF node.dir = axis
                           THEN [oid |-> node.oid, isInA |-> inA, size |-> node.size]
                           ELSE NoSplit

Max(x, y) == IF x >= y THEN x ELSE y
Min(x, y) == IF x <= y THEN x ELSE y

\* a nudge that stores the stepped size as it is
nudgedSize_noClamp(found, direction) ==
    LET delta == IF direction \in {"left", "up"} THEN 0 - NudgeStep ELSE NudgeStep
    IN  found.size + (IF found.isInA THEN delta ELSE 0 - delta)

\* the new size nudgeSplitSize stores for a found Split
nudgedSize(found, direction) ==
    LET delta == IF direction \in {"left", "up"} THEN 0 - NudgeStep ELSE NudgeStep
    IN  Max(SizeMin, Min(SizeMax, found.size + (IF found.isInA THEN delta ELSE 0 - delta)))

(* ------------------------------- layout ------------------------------- *)
Rect(x, y, w, h) == [x |-> x, y |-> y, width |-> w, height |-> h]
Viewport == Rect(0, 0, ViewW, ViewH)

\* a layout that takes no gutter out of the extent it divides
RECURSIVE layout_noGutter(_, _)
layout_noGutter(node, rect) ==
    IF node.kind = "leaf" THEN << [id |-> node.id, rect |-> rect] >>
    ELSE IF node.kind = "null" THEN << >>
    ELSE IF node.dir = "vertical"
         THEN LET wA == (rect.width * node.size) \div 100
              IN  layout_noGutter(node.a, Rect(rect.x, rect.y, wA, rect.height))
                  \o layout_noGutter(node.b, Rect(rect.x + wA + PANE_GUTTER, rect.y,
                                                  rect.width - wA, rect.height))
         ELSE LET hA == (rect.height * node.size) \div 100
              IN  layout_noGutter(node.a, Rect(rect.x, rect.y, rect.width, hA))
                  \o layout_noGutter(node.b, Rect(rect.x, rect.y + hA + PANE_GUTTER,
                                                  rect.width, rect.height - hA))

\* layout: the PaneState list (id and rect) in a-before-b order
RECURSIVE layout(_, _)
layout(node, rect) ==
    IF node.kind = "leaf" THEN << [id |-> node.id, rect |-> rect] >>
    ELSE IF node.kind = "null" THEN << >>
    ELSE IF node.dir = "vertical"
         THEN LET avail == rect.width - PANE_GUTTER
                  wA == (avail * node.size) \div 100
                  wB == avail - wA
              IN  layout(node.a, Rect(rect.x, rect.y, wA, rect.height))
                  \o layout(node.b, Rect(rect.x + wA + PANE_GUTTER, rect.y, wB, rect.height))
         ELSE LET avail == rect.height - PANE_GUTTER
                  hA == (avail * node.size) \div 100
                  hB == avail - hA
              IN  layout(node.a, Rect(rect.x, rect.y, rect.width, hA))
                  \o layout(node.b, Rect(rect.x, rect.y + hA + PANE_GUTTER, rect.width, hB))

\* what sendState computes for the window's content size
PaneList(root) == IF root = Null THEN << >> ELSE layout(root, Viewport)

\* bounds that are the layout rect as it is
setLeafBounds_noGutter(rect, w, h) == rect

\* setLeafBounds: the bounds given to the layers of a leaf laid out in rect,
\* in a window of content size w x h
setLeafBounds(rect, w, h) ==
    LET leftG == IF rect.x > 0 THEN PANE_GUTTER ELSE 0
        rightG == IF rect.x + rect.width < w THEN PANE_GUTTER ELSE 0
        topG == IF rect.y > 0 THEN PANE_GUTTER ELSE 0
        bottomG == IF rect.y + rect.height < h THEN PANE_GUTTER ELSE 0
    IN  Rect(rect.x + leftG, rect.y + topG,
             Max(0, rect.width - (leftG + rightG)),
             Max(0, rect.height - (topG + bottomG)))

\* layout from sendState: per leaf, in a-before-b order, the rect pushed to
\* out and the bounds setLeafBounds applied
BoundsList(node, w, h) ==
    LET out == layout(node, Rect(0, 0, w, h))
    IN  [i \in DOMAIN out |->
            [id |-> out[i].id, rect |-> out[i].rect,
             bounds |-> setLeafBounds(out[i].rect, w, h)]]


(* ------------------------------- state -------------------------------- *)
VARIABLES
    root,                  \* Window.root: the active tree
    paneById,              \* keys of Window.paneById (live Pane controllers)
    layers,                \* per pane, the topmost layer: "content" or "overlay"
    attached,              \* the panes whose views are children of the window's contentView
    lastActivePaneId,      \* Window.lastActivePaneId (NoId for null)
    searchStates,          \* Window.searchStates
    overlayStates,         \* Window.overlayStates
    biscuitStates,         \* Window.biscuitStates
    typingStates,          \* Window.typingStates
    searchDebounceTimers,  \* Window.searchDebounceTimers: the timeout handle per pane
    searchTimers,          \* the search timeouts that are armed: pane, handle, query
    nextId,                \* the next id allocId hands out
    paneCap,               \* the last id a run may allocate
    pendingSplits,         \* Window.split calls suspended in await this.make()
    nudges,                \* resize requests the run still makes
    windowOpen,            \* FALSE once BaseWindow.close() has run
    delivered,             \* per pane, the last "panes:update" list sent to it
    wsObjs,                \* every Workspace object created, by workspace id
    workspaces,            \* keys of WorkspaceManager.workspaces
    activeWorkspaceId,     \* WorkspaceManager.activeWorkspaceId
    nextWs,                \* stands for uuid()
    switches,              \* switchToWorkspace requests made so far
    pendingCreates,        \* createWorkspace calls suspended in await make()
    pendingSwitches,       \* switchToWorkspace calls awaiting the preview capture
    focusTimers,           \* the 50 ms focus timers switchToWorkspace arms
    lastOp,                \* the operation the last step performed
    lastKey,               \* the last key event and what the dispatcher did with it
    keys,                  \* key events handled so far
    call,                  \* the last application of a pure function: name, arguments, result
    page,                  \* per pane, the hint overlay of its page (preload state)
    toPage,                \* per pane, "pane:biscuits:*" messages in flight to the page
    toMain,                \* "pane:biscuits:completed" messages in flight (pane ids)
    lastPage,              \* the last "pane:biscuits:update" a page handled
    pendingSyncs,          \* the sync() calls suspended in their awaits
    leaves,                \* per pane, its Leaf object: url and what its metadata came from
    saveDebounceTimer,     \* Window.saveDebounceTimer: a timeout handle (NoId for null)
    timers,                \* handles of the save timeouts that are armed
    persisted              \* what savePaneState wrote last (Null: nothing yet)

saveVars == << saveDebounceTimer, timers, persisted >>
winVars == << root, paneById, layers, attached, lastActivePaneId, nextId, paneCap,
              pendingSplits, nudges, windowOpen, delivered, saveVars >>
mapVars == << searchStates, overlayStates, biscuitStates, typingStates,
              searchDebounceTimers, searchTimers >>
wsVars == << wsObjs, workspaces, activeWorkspaceId, nextWs, switches, pendingCreates,
             pendingSwitches, focusTimers >>
keyVars == << lastKey, keys, call, page, toPage, toMain, lastPage, pendingSyncs, leaves >>
vars == << winVars, mapVars, wsVars, lastOp, keyVars >>

(* ------------------------- function helpers --------------------------- *)
\* Map.set and Map.delete on a function
MapSet(f, k, v) == [x \in DOMAIN f \cup {k} |-> IF x = k THEN v ELSE f[x]]
MapDel(f, k) == [x \in DOMAIN f \ {k} |-> f[x]]
MapDelAll(f, ks) == [x \in DOMAIN f \ ks |-> f[x]]
EmptyMap == [x \in {} |-> 0]

DefaultUrl == "url"
NewSearchState == [query |-> DefaultUrl, isFocused |-> FALSE]
NewBiscuitState == [active |-> FALSE, typed |-> << >>]
\* the Leaf object make() builds once its page has loaded: image stands
\* for the url whose fetched HTML gave leaf.image and leaf.description,
\* favicon for the url whose DOM gave leaf.favicon and the colours
NewLeaf == [url |-> DefaultUrl, image |-> DefaultUrl, favicon |-> DefaultUrl]

\* oids some live reference can still reach
UsedOids ==
    OidSet(root)
      \cup UNION { OidSet(wsObjs[w].root) : w \in DOMAIN wsObjs }
      \cup { p.parent : p \in pendingSplits }

FreshOid == CHOOSE o \in Oids : o \notin UsedOids /\ \A q \in Oids : q \notin UsedOids => o <= q

\* an in-place mutation reaches the object through every workspace's root
wsReplaceChild(w, parent, prev, next) ==
    [x \in DOMAIN w |-> [w[x] EXCEPT !.root = replaceChildIn(w[x].root, parent, prev, next)]]
wsSetSize(w, oid, v) ==
    [x \in DOMAIN w |-> [w[x] EXCEPT !.root = setSizeIn(w[x].root, oid, v)]]

(* ----------------- hideWorkspacePanes, showWorkspacePanes -------------- *)
\* hideWorkspacePanes: the views of the tree's leaves that have a pane are
\* removed from the contentView; att is the set attached before
hideWorkspacePanes(att, node, panes) ==
    IF node = Null THEN att ELSE att \ (LeafSet(node) \cap panes)

\* showWorkspacePanes: they are added
showWorkspacePanes(att, node, panes) ==
    IF node = Null THEN att ELSE att \cup (LeafSet(node) \cap panes)

(* ----------------------------- Window.make ---------------------------- *)
\* the part of make before await loadURL: the pane is registered
makeRegistered(id) ==
    /\ paneById' = paneById \cup {id}
    /\ layers' = MapSet(layers, id, "content")
    /\ attached' = attached \cup {id}
    /\ searchStates' = MapSet(searchStates, id, NewSearchState)
    /\ overlayStates' = MapSet(overlayStates, id, FALSE)
    /\ biscuitStates' = MapSet(biscuitStates, id, NewBiscuitState)
    /\ typingStates' = MapSet(typingStates, id, FALSE)
    /\ nextId' = nextId + 1

\* focus(id): the new lastActivePaneId
focus(id, last) == IF id \in paneById THEN id ELSE last

\* sendState(win, root, pane): the list goes to that pane's layers only
sendState(d, r, pane) ==
    IF pane \in DOMAIN d THEN [d EXCEPT ![pane] = PaneList(r)] ELSE d

\* debouncedSave without the clearTimeout
debouncedSave_noClear ==
    /\ timers' = timers \cup
           { CHOOSE h \in 1..(Cardinality(timers) + 1) :
                h \notin timers /\ \A g \in 1..(h - 1) : g \in timers }
    /\ saveDebounceTimer' \in timers' \ timers
    /\ UNCHANGED persisted

\* debouncedSave: clearTimeout of the handle held, then a new timeout whose
\* handle is kept (a handle is a number no armed timeout has)
debouncedSave ==
    LET kept == timers \ {saveDebounceTimer}
        h == CHOOSE h \in 1..(Cardinality(kept) + 1) :
                h \notin kept /\ \A g \in 1..(h - 1) : g \in kept
    IN  /\ timers' = kept \cup {h}
        /\ saveDebounceTimer' = h
        /\ UNCHANGED persisted

\* saveState: nothing without a root, else savePaneState of the tree and
\* the last-active pane
saveState == IF root = Null THEN persisted
             ELSE [root |-> root, lastActivePaneId |-> lastActivePaneId]

\* a binding: the function a keybinding table maps a chord to, with its argument
Bind(f, a) == [fn |-> f, arg |-> a]
NoBinding == Bind("none", "")

NoKey == [pane |-> NoId, chord |-> << >>, overlay |-> FALSE, biscuits |-> FALSE,
          typing |-> FALSE, typed |-> << >>, ran |-> NoBinding, prevented |-> FALSE,
          effect |-> "none", canGo |-> FALSE,
          op |-> [op |-> "init", id |-> NoId, ret |-> "none"]]

\* no pure function has been applied yet
NoCall == [fn |-> "none", arg |-> << >>, ret |-> << >>, done |-> FALSE]

\* a "pane:biscuits:*" message, the hint state of a page, and the record of
\* an update a page handled
Msg(t, typed) == [type |-> t, typed |-> typed]
NoPage == [overlay |-> FALSE, n |-> 0, typed |-> << >>]
NoPageStep == [pane |-> NoId, typed |-> << >>, labels |-> << >>, activated |-> {}]

(* ---------------------------- initial state --------------------------- *)
\* init(): create() makes pane 1 (whose make sends the list of the still
\* empty tree) and arms the save timer, then initializeDefaultWorkspace
\* adopts window.root
InitPanes ==
    /\ root = Leaf(1)
    /\ paneById = {1}
    /\ layers = [x \in {1} |-> "content"]
    /\ attached = {1}
    /\ lastActivePaneId = 1
    /\ searchStates = [x \in {1} |-> NewSearchState]
    /\ overlayStates = [x \in {1} |-> FALSE]
    /\ biscuitStates = [x \in {1} |-> NewBiscuitState]
    /\ typingStates = [x \in {1} |-> FALSE]
    /\ searchDebounceTimers = EmptyMap
    /\ searchTimers = {}
    /\ nextId = 2
    /\ pendingSplits = {}
    /\ windowOpen = TRUE
    /\ saveDebounceTimer = 1
    /\ timers = {1}
    /\ persisted = Null
    /\ delivered = [x \in {1} |-> << >>]
    /\ activeWorkspaceId = 1
    /\ switches = 0
    /\ pendingCreates = {}
    /\ pendingSwitches = << >>
    /\ focusTimers = {}
    /\ lastOp = [op |-> "init", id |-> NoId, ret |-> "none"]
    /\ lastKey = NoKey
    /\ keys = 0
    /\ page = [p \in Ids |-> NoPage]
    /\ toPage = [p \in Ids |-> << >>]
    /\ toMain = << >>
    /\ lastPage = NoPageStep
    /\ pendingSyncs = {}
    /\ leaves = [p \in Ids |-> NewLeaf]

\* initializeDefaultWorkspace with nothing loaded: "Workspace 1" around the
\* window's root
InitWindow ==
    /\ InitPanes
    /\ wsObjs = [w \in {1} |-> [index |-> 0, root |-> Leaf(1), serializedRoot |-> Null,
                                lastActivePaneId |-> 1, isActive |-> TRUE]]
    /\ workspaces = {1}
    /\ nextWs = 2

Init == InitWindow /\ paneCap = MaxPanes /\ nudges = MaxNudges /\ call = NoCall


(* --------------------------- Window.split ----------------------------- *)
\* onPaneSplit resolves the target through lastActivePaneId, then the part
\* of split up to await this.make(): sentinel returns, findParent, and the
\* registration of the new pane
\* kp is the pane whose key event ran the binding (NoId for the IPC
\* message): the dispatcher sends it the list right after the binding returns
splitStart(kp, id, dir, side) ==
    LET target == IF lastActivePaneId # NoId THEN lastActivePaneId ELSE id
        parent == findParent(root, target)
    IN  /\ windowOpen
        /\ IF root = Null \/ target \notin paneById
           THEN /\ lastOp' = [op |-> "split", id |-> target, ret |-> "-1"]
                /\ delivered' = IF HasNullChild(root) THEN delivered
                                ELSE sendState(delivered, root, kp)
                /\ UNCHANGED << root, paneById, layers, attached, lastActivePaneId, nextId,
                                paneCap, pendingSplits, nudges, saveVars, windowOpen, mapVars,
                                wsVars >>
           ELSE IF parent = -1
           THEN /\ lastOp' = [op |-> "split", id |-> target, ret |-> "throw"]
                /\ UNCHANGED << winVars, mapVars, wsVars >>
           ELSE /\ nextId <= paneCap
                /\ makeRegistered(nextId)
                /\ delivered' = IF HasNullChild(root) THEN MapSet(delivered, nextId, << >>)
                                ELSE sendState(MapSet(delivered, nextId, << >>), root, kp)
                /\ pendingSplits' = pendingSplits \cup
                       { [id |-> target, parent |-> parent, dir |-> dir,
                          side |-> side, other |-> nextId] }
                /\ lastOp' = [op |-> "split", id |-> target, ret |-> "await"]
                /\ UNCHANGED << root, lastActivePaneId, paneCap, nudges, saveVars, windowOpen,
                                searchDebounceTimers, searchTimers, wsVars >>

\* onPaneSplit ("pane:split")
OnPaneSplit(id, dir, side) ==
    /\ splitStart(NoId, id, dir, side)
    /\ UNCHANGED keyVars

\* the Split node split() builds around the target and the new leaf
splitNode(oid, p) ==
    IF p.side \in {"left", "up"}
    THEN MkSplit(oid, p.dir, SizeHalf, Leaf(p.other), Leaf(p.id))
    ELSE MkSplit(oid, p.dir, SizeHalf, Leaf(p.id), Leaf(p.other))

\* loadURL resolved: the rest of make (focus, sendState to the new pane),
\* then the rest of split: the node is put in place of the target
SplitFinish(p) ==
    LET d1 == sendState(delivered, root, p.other)
        node == splitNode(FreshOid, p)
        root2 == IF p.parent = 0 THEN node
                 ELSE replaceChildIn(root, p.parent, Leaf(p.id), node)
    IN  /\ windowOpen
        /\ p \in pendingSplits
        /\ pendingSplits' = pendingSplits \ {p}
        /\ IF HasNullChild(root)
           THEN \* sendState in make throws: the split is abandoned
                /\ lastActivePaneId' = focus(p.other, lastActivePaneId)
                /\ lastOp' = [op |-> "splitDone", id |-> p.id, ret |-> "throw"]
                /\ UNCHANGED << root, delivered, wsObjs, saveVars >>
           ELSE /\ root' = root2
                /\ wsObjs' = IF p.parent = 0 THEN wsObjs
                             ELSE wsReplaceChild(wsObjs, p.parent, Leaf(p.id), node)
                /\ lastActivePaneId' = p.other
                /\ delivered' = IF HasNullChild(root2) THEN d1
                                ELSE sendState(d1, root2, p.other)
                /\ lastOp' = [op |-> "splitDone", id |-> p.id, ret |-> "ok"]
                /\ debouncedSave
        /\ UNCHANGED << paneById, layers, attached, nextId, paneCap, nudges, windowOpen,
                        mapVars, workspaces, activeWorkspaceId, nextWs, switches,
                        pendingCreates, pendingSwitches, focusTimers, keyVars >>

(* --------------------------- Window.close ----------------------------- *)
\* twice the centre of a rect, so that halves stay integers
Cx2(r) == 2 * r.x + r.width
Cy2(r) == 2 * r.y + r.height
Dist2(r1, r2) ==
    (Cx2(r1) - Cx2(r2)) * (Cx2(r1) - Cx2(r2)) + (Cy2(r1) - Cy2(r2)) * (Cy2(r1) - Cy2(r2))

\* close(): the pane nearest to the closed one in listBefore (first minimum)
nextActiveOf(list, id) ==
    LET hits == { i \in 1..Len(list) : list[i].id = id }
        others == { i \in 1..Len(list) : list[i].id # id }
    IN  IF hits = {} \/ others = {} THEN NoId
        ELSE LET h == CHOOSE i \in hits : \A j \in hits : i <= j
                 closedRect == list[h].rect
                 best == CHOOSE i \in others :
                            \A j \in others :
                               \/ Dist2(list[i].rect, closedRect) < Dist2(list[j].rect, closedRect)
                               \/ /\ Dist2(list[i].rect, closedRect) = Dist2(list[j].rect, closedRect)
                                  /\ i <= j
             IN  list[best].id

\* getWorkspaces(): the workspaces of the map sorted by index (stable)
wsBefore(w, x, y) == w[x].index < w[y].index \/ (w[x].index = w[y].index /\ x < y)
wsRank(w, S, x) == Cardinality({ y \in S : wsBefore(w, y, x) })
getWorkspaces(w, S) ==
    [i \in 1..Cardinality(S) |-> CHOOSE x \in S : wsRank(w, S, x) = i - 1]

\* removeWorkspace: the workspace objects after the map entry is deleted and
\* the remaining workspaces are re-indexed
removeWorkspaceObjs(w, S, id) ==
    [x \in DOMAIN w |-> IF x \in S \ {id}
                        THEN [w[x] EXCEPT !.index = wsRank(w, S \ {id}, x)]
                        ELSE w[x]]

\* a switchToWorkspace call suspended in captureWorkspacePreview, and one
\* suspended in restoreNode: node is the serialized tree it restores, made
\* the number of its leaves whose pane has been made (the last one loading)
Capturing(t, cur) ==
    [target |-> t, current |-> cur, stage |-> "capture", node |-> Null, made |-> 0]
Restoring(t, cur, node, made) ==
    [target |-> t, current |-> cur, stage |-> "restore", node |-> node, made |-> made]

\* a close of the last pane that empties the tree and leaves the window open
windowClosed_open ==
    /\ root' = Null
    /\ windowOpen' = TRUE
    /\ paneById' = {}
    /\ searchStates' = EmptyMap
    /\ overlayStates' = EmptyMap
    /\ biscuitStates' = EmptyMap
    /\ typingStates' = EmptyMap
    /\ timers' = timers \ {saveDebounceTimer}
    /\ UNCHANGED << saveDebounceTimer, persisted >>

\* BaseWindow.close() after close() has set root to null: the "close"
\* handler sees no root and saves nothing, the "closed" handler clears the
\* maps and the save timeout
windowClosed ==
    /\ root' = Null
    /\ windowOpen' = FALSE
    /\ paneById' = {}
    /\ searchStates' = EmptyMap
    /\ overlayStates' = EmptyMap
    /\ biscuitStates' = EmptyMap
    /\ typingStates' = EmptyMap
    /\ timers' = timers \ {saveDebounceTimer}
    /\ UNCHANGED << saveDebounceTimer, persisted >>

\* clearTimeout on the handle searchDebounceTimers holds for the pane: the
\* search timeouts that stay armed (a handle names one timeout, the pane's)
clearTimeout_none(p) == searchTimers
clearTimeout(p) ==
    { t \in searchTimers : ~(/\ p \in DOMAIN searchDebounceTimers
                              /\ t.pane = p
                              /\ t.h = searchDebounceTimers[p]) }

\* the part of close() that drops the pane from the maps
closeMaps(id) ==
    /\ searchStates' = MapDel(searchStates, id)
    /\ overlayStates' = MapDel(overlayStates, id)
    /\ biscuitStates' = MapDel(biscuitStates, id)
    /\ searchDebounceTimers' = MapDel(searchDebounceTimers, id)
    /\ searchTimers' = clearTimeout(id)
    /\ UNCHANGED typingStates

close(id) ==
    /\ windowOpen
    /\ root # Null
    /\ IF HasNullChild(root)
       THEN \* layout for listBefore throws
            /\ lastOp' = [op |-> "close", id |-> id, ret |-> "throw"]
            /\ UNCHANGED << winVars, mapVars, wsVars >>
       ELSE IF id \notin paneById
       THEN /\ lastOp' = [op |-> "close", id |-> id, ret |-> "undefined"]
            /\ UNCHANGED << winVars, mapVars, wsVars >>
       ELSE /\ lastOp' = [op |-> "close", id |-> id, ret |-> "closed"]
            /\ IF root = Leaf(id)
               THEN IF activeWorkspaceId \in workspaces /\ Cardinality(workspaces) > 1
                    THEN \* removeWorkspace(current), then switchToWorkspace(first
                         \* remaining): no current workspace, so no capture; a
                         \* target that holds only a serializedRoot suspends in
                         \* the make of its first leaf
                         LET cur == activeWorkspaceId
                             gone == (LeafSet(wsObjs[cur].root) \cap (paneById \ {id})) \cup {id}
                             w1 == removeWorkspaceObjs(wsObjs, workspaces, cur)
                             t == getWorkspaces(w1, workspaces \ {cur})[1]
                             node == w1[t].serializedRoot
                             loaded == w1[t].root = Null /\ node # Null
                             made == IF loaded THEN {LeafSeq(node)[1]} ELSE {}
                             reg(m, v) == [x \in made |-> v] @@ m
                         IN  /\ paneById' = (paneById \ gone) \cup made
                             /\ layers' = reg(MapDelAll(layers, gone), "content")
                             /\ attached' =
                                    IF loaded THEN (attached \ gone) \cup made
                                    ELSE showWorkspacePanes(attached \ gone, w1[t].root,
                                                            paneById \ gone)
                             /\ delivered' = reg(MapDelAll(delivered, gone), << >>)
                             /\ searchStates' = reg(MapDelAll(searchStates, gone), NewSearchState)
                             /\ overlayStates' = reg(MapDelAll(overlayStates, gone), FALSE)
                             /\ biscuitStates' = reg(MapDelAll(biscuitStates, gone), NewBiscuitState)
                             /\ typingStates' = reg(MapDelAll(typingStates, gone \ {id}), FALSE)
                             /\ searchDebounceTimers' = MapDel(searchDebounceTimers, id)
                             /\ searchTimers' = clearTimeout(id)
                             /\ workspaces' = workspaces \ {cur}
                             /\ IF loaded
                                THEN /\ wsObjs' = w1
                                     /\ pendingSwitches' =
                                            Append(pendingSwitches, Restoring(t, 0, node, 1))
                                     /\ UNCHANGED << root, lastActivePaneId,
                                                     activeWorkspaceId, focusTimers >>
                                ELSE /\ wsObjs' = [w1 EXCEPT ![t].isActive = TRUE]
                                     /\ root' = w1[t].root
                                     /\ lastActivePaneId' = w1[t].lastActivePaneId
                                     /\ activeWorkspaceId' = t
                                     /\ focusTimers' = focusTimers \cup {t}
                                     /\ UNCHANGED pendingSwitches
                             /\ debouncedSave
                             /\ UNCHANGED << nextId, paneCap, pendingSplits, nudges,
                                             windowOpen, nextWs, switches, pendingCreates >>
                    ELSE /\ windowClosed
                         /\ searchDebounceTimers' = MapDel(searchDebounceTimers, id)
                         /\ searchTimers' = clearTimeout(id)
                         /\ layers' = EmptyMap
                         /\ attached' = {}
                         /\ delivered' = EmptyMap
                         /\ UNCHANGED << lastActivePaneId, nextId, paneCap,
                                         pendingSplits, nudges, wsVars >>
               ELSE LET list == PaneList(root)
                        nextActive == nextActiveOf(list, id)
                    IN  /\ paneById' = paneById \ {id}
                        /\ layers' = MapDel(layers, id)
                        /\ attached' = attached \ {id}
                        /\ delivered' = MapDel(delivered, id)
                        /\ closeMaps(id)
                        /\ root' = replaceNode(root, id, UsedOids)
                        /\ lastActivePaneId' =
                              \* sendState throws on a null child before this point
                              IF /\ ~HasNullChild(replaceNode(root, id, UsedOids))
                                 /\ nextActive # NoId /\ nextActive \in paneById \ {id}
                              THEN nextActive ELSE lastActivePaneId
                        /\ IF replaceNode(root, id, UsedOids) # Null
                           THEN debouncedSave ELSE UNCHANGED saveVars
                        /\ UNCHANGED << nextId, paneCap, pendingSplits, nudges,
                                        windowOpen, wsVars >>

\* onPaneClose ("pane:close") and the meta+w binding
Close(id) ==
    /\ close(id)
    /\ UNCHANGED keyVars

(* ------------------------- resize, focus ----------------------------- *)
\* onPaneResize: nudgeSplitSize on the target resolved through
\* lastActivePaneId; sendState(win, root, null) sends to no pane
resize(kp, id, dir) ==
    LET target == IF lastActivePaneId # NoId THEN lastActivePaneId ELSE id
        axis == IF dir \in {"left", "right"} THEN "vertical" ELSE "horizontal"
        found == findSplitForResize(root, target, axis)
    IN  /\ windowOpen
        /\ nudges > 0
        /\ nudges' = nudges - 1
        /\ IF root = Null \/ HasNullChild(root) \/ found.oid = 0
           THEN /\ lastOp' = [op |-> "resize", id |-> target, ret |-> "undefined"]
                /\ UNCHANGED << root, wsObjs >>
           ELSE /\ root' = setSizeIn(root, found.oid, nudgedSize(found, dir))
                /\ wsObjs' = wsSetSize(wsObjs, found.oid, nudgedSize(found, dir))
                /\ lastOp' = [op |-> "resize", id |-> target, ret |-> "ok"]
        /\ delivered' = IF root = Null \/ HasNullChild(root) THEN delivered
                        ELSE sendState(delivered, root', kp)
        \* containsNode throws on a null child, before debouncedSave
        /\ IF root # Null /\ HasNullChild(root)
           THEN UNCHANGED saveVars ELSE debouncedSave
        /\ UNCHANGED << paneById, layers, attached, lastActivePaneId, nextId, paneCap,
                        pendingSplits, windowOpen, mapVars, workspaces,
                        activeWorkspaceId, nextWs, switches, pendingCreates, pendingSwitches,
                        focusTimers >>

\* onPaneResize ("pane:resize")
OnPaneResize(id, dir) ==
    /\ resize(NoId, id, dir)
    /\ UNCHANGED keyVars

\* handlePaneActive ("pane:active")
HandlePaneActive(id) ==
    /\ windowOpen
    /\ id \in paneById
    /\ id # lastActivePaneId
    /\ lastActivePaneId' = id
    /\ lastOp' = [op |-> "active", id |-> id, ret |-> "ok"]
    /\ debouncedSave
    /\ UNCHANGED << root, paneById, layers, attached, nextId, paneCap, pendingSplits, nudges,
                    windowOpen, delivered, mapVars, wsVars, keyVars >>


(* ---------------------- saving, window close -------------------------- *)
\* the save timeout fires: saveState writes the tree of that moment
SaveTimerFire(h) ==
    /\ windowOpen
    /\ h \in timers
    /\ timers' = timers \ {h}
    /\ persisted' = saveState
    /\ lastOp' = [op |-> "save", id |-> NoId,
                  ret |-> IF root = Null THEN "undefined" ELSE "ok"]
    /\ UNCHANGED << root, paneById, layers, attached, lastActivePaneId, nextId, paneCap,
                    pendingSplits, nudges, windowOpen, delivered, saveDebounceTimer,
                    mapVars, wsVars, keyVars >>

\* the user closes the window: the "close" handler, with a root, clears the
\* save timeout, sets the handle to null and saves; the "closed" handler
\* clears the maps and the timeout
WindowClose ==
    /\ windowOpen
    /\ windowOpen' = FALSE
    /\ saveDebounceTimer' = IF root # Null THEN NoId ELSE saveDebounceTimer
    /\ timers' = timers \ {saveDebounceTimer}
    /\ persisted' = saveState
    /\ paneById' = {}
    /\ searchStates' = EmptyMap
    /\ overlayStates' = EmptyMap
    /\ biscuitStates' = EmptyMap
    /\ typingStates' = EmptyMap
    /\ lastOp' = [op |-> "windowClose", id |-> NoId, ret |-> "ok"]
    /\ UNCHANGED << root, layers, attached, lastActivePaneId, nextId, paneCap, pendingSplits,
                    nudges, delivered, searchDebounceTimers, searchTimers, wsVars, keyVars >>

(* ------------------- serializeNode, restoreNode --------------------- *)
\* the leaves of the running window carry kind and id only; the leaves the
\* two functions are applied to alone also carry url and title
\* serializeNode: the plain copy of a tree; a Split's copy is a new object
\* literal with dir, size and the copies of a and b
RECURSIVE serializeNode(_)
serializeNode(node) ==
    IF node.kind = "null" THEN Null
    ELSE IF node.kind = "leaf"
    THEN [kind |-> "leaf", id |-> node.id, url |-> node.url, title |-> node.title]
    ELSE [kind |-> "split", dir |-> node.dir, size |-> node.size,
          a |-> serializeNode(node.a), b |-> serializeNode(node.b)]

\* a restore that builds each Split with its children exchanged
RECURSIVE restoreNode_swapped(_, _)
restoreNode_swapped(node, o) ==
    IF node.kind = "leaf" THEN node
    ELSE MkSplit(o, node.dir, node.size,
                 restoreNode_swapped(node.b, 2 * o + 1), restoreNode_swapped(node.a, 2 * o))

\* restoreNode: a leaf is the leaf of make(node.url, node.id), whose id is
\* providedId || allocId(), with the saved title put over the loaded one
\* when it is not empty ("loaded" is what getTitle() gives once loadURL
\* has resolved); a Split is a new object o around the restored children
RECURSIVE restoreNode(_, _)
restoreNode(node, o) ==
    IF node.kind = "leaf"
    THEN LET leaf == [node EXCEPT !.id = IF node.id # 0 THEN node.id ELSE nextId]
         IN  IF "title" \in DOMAIN leaf /\ leaf.title = ""
             THEN [leaf EXCEPT !.title = "loaded"]
             ELSE leaf
    ELSE MkSplit(o, node.dir, node.size,
                 restoreNode(node.a, 2 * o), restoreNode(node.b, 2 * o + 1))

(* ------------------------- WorkspaceManager --------------------------- *)
\* getWorkspaceByIndex: first workspace of the map (insertion order) with
\* that index, 0 for undefined
getWorkspaceByIndex(i) ==
    LET hits == { x \in workspaces : wsObjs[x].index = i }
    IN  IF hits = {} THEN 0 ELSE CHOOSE x \in hits : \A y \in hits : x <= y

maxWorkspaces == 9

\* getNextAvailableIndex
getNextAvailableIndex ==
    LET free == { i \in 0..(maxWorkspaces - 1) : getWorkspaceByIndex(i) = 0 }
    IN  IF free = {} THEN -1 ELSE CHOOSE i \in free : \A j \in free : i <= j

\* without(s, i): the sequence s with its i-th element taken out
without(s, i) == [j \in 1..(Len(s) - 1) |-> IF j < i THEN s[j] ELSE s[j + 1]]

\* make(url, providedId) up to await loadURL: the pane is registered under
\* the id it was given
makeProvided(id) ==
    /\ paneById' = paneById \cup {id}
    /\ layers' = MapSet(layers, id, "content")
    /\ searchStates' = MapSet(searchStates, id, NewSearchState)
    /\ overlayStates' = MapSet(overlayStates, id, FALSE)
    /\ biscuitStates' = MapSet(biscuitStates, id, NewBiscuitState)
    /\ typingStates' = MapSet(typingStates, id, FALSE)

\* the tail of switchToWorkspace, from "this.window.root = targetWorkspace.root"
switchTail(w, t, att) ==
    /\ root' = w[t].root
    /\ attached' = showWorkspacePanes(att, w[t].root, paneById)
    /\ lastActivePaneId' = w[t].lastActivePaneId
    /\ wsObjs' = [w EXCEPT ![t].isActive = TRUE]
    /\ activeWorkspaceId' = t
    /\ focusTimers' = focusTimers \cup {t}
    /\ debouncedSave

\* switchToWorkspace up to its first await: it suspends in
\* captureWorkspacePreview when another workspace is active; otherwise a
\* target that holds only a serializedRoot suspends in the make of its
\* first leaf, a target with neither returns false, and a target with a
\* tree becomes active
switchStart(w, S, t) ==
    LET cur == IF activeWorkspaceId \in S THEN activeWorkspaceId ELSE 0
        node == w[t].serializedRoot
    IN  IF cur # 0 /\ cur # t
        THEN /\ pendingSwitches' = Append(pendingSwitches, Capturing(t, cur))
             /\ wsObjs' = w
             /\ UNCHANGED << root, lastActivePaneId, activeWorkspaceId, focusTimers,
                             paneById, layers, attached, searchStates, overlayStates,
                             biscuitStates, typingStates, saveVars >>
        ELSE IF w[t].root = Null /\ node # Null
        THEN /\ makeProvided(LeafSeq(node)[1])
             /\ attached' = attached \cup {LeafSeq(node)[1]}
             /\ pendingSwitches' = Append(pendingSwitches, Restoring(t, 0, node, 1))
             /\ wsObjs' = w
             /\ UNCHANGED << root, lastActivePaneId, activeWorkspaceId, focusTimers,
                             saveVars >>
        ELSE IF w[t].root = Null
        THEN /\ wsObjs' = w
             /\ UNCHANGED << root, lastActivePaneId, activeWorkspaceId, focusTimers,
                             pendingSwitches, paneById, layers, attached, searchStates,
                             overlayStates, biscuitStates, typingStates, saveVars >>
        ELSE /\ switchTail(w, t, attached)
             /\ UNCHANGED << pendingSwitches, paneById, layers, searchStates,
                             overlayStates, biscuitStates, typingStates >>

\* handleWorkspaceSwitch ("workspace:switch") for a workspace of the map
SwitchToWorkspace(t) ==
    /\ windowOpen
    /\ t \in workspaces
    /\ Len(pendingSwitches) < MaxPendingSwitches
    /\ switches < MaxSwitches
    /\ switches' = switches + 1
    /\ switchStart(wsObjs, workspaces, t)
    /\ lastOp' = [op |-> "switch", id |-> t, ret |-> "await"]
    /\ delivered' = [x \in paneById' \ paneById |-> << >>] @@ delivered
    /\ UNCHANGED << nextId, paneCap, pendingSplits, nudges, windowOpen,
                    searchDebounceTimers, searchTimers, workspaces, nextWs, pendingCreates,
                    keyVars >>

\* the preview capture resolved: the captured current workspace is
\* deactivated and takes window.root; a target that holds only a
\* serializedRoot is restored, restoreNode suspending in the make of its
\* first leaf; otherwise the target becomes active
SwitchAfterCapture(i) ==
    /\ windowOpen
    /\ i \in 1..Len(pendingSwitches)
    /\ pendingSwitches[i].stage = "capture"
    /\ LET p == pendingSwitches[i]
           w1 == [wsObjs EXCEPT ![p.current] =
                     [@ EXCEPT !.isActive = FALSE,
                               !.root = IF root # Null THEN root ELSE @,
                               !.lastActivePaneId =
                                   IF root # Null THEN lastActivePaneId ELSE @]]
           node == w1[p.target].serializedRoot
       IN  IF w1[p.target].root = Null /\ node # Null
           THEN /\ makeProvided(LeafSeq(node)[1])
                /\ attached' = hideWorkspacePanes(attached, w1[p.current].root, paneById)
                                    \cup {LeafSeq(node)[1]}
                /\ delivered' = MapSet(delivered, LeafSeq(node)[1], << >>)
                /\ wsObjs' = w1
                /\ pendingSwitches' =
                       [pendingSwitches EXCEPT ![i] = Restoring(p.target, p.current, node, 1)]
                /\ lastOp' = [op |-> "switchRestore", id |-> p.target, ret |-> "await"]
                /\ UNCHANGED << root, lastActivePaneId, activeWorkspaceId, focusTimers,
                                saveVars,
                                searchDebounceTimers, searchTimers >>
           ELSE /\ switchTail(w1, p.target,
                               hideWorkspacePanes(attached, w1[p.current].root, paneById))
                /\ pendingSwitches' = without(pendingSwitches, i)
                /\ lastOp' = [op |-> "switchDone", id |-> p.target, ret |-> "true"]
                /\ UNCHANGED << paneById, layers, delivered, mapVars >>
    /\ UNCHANGED << nextId, paneCap, pendingSplits, nudges, windowOpen, workspaces,
                    nextWs, switches, pendingCreates, keyVars >>

\* restored without "targetWorkspace.serializedRoot = null"
restored_kept(w, t, node) ==
    [w EXCEPT ![t] = [@ EXCEPT !.root = restoreNode(node, FreshOid)]]

\* "targetWorkspace.root = await this.window.restoreNode(serializedRoot);
\* targetWorkspace.serializedRoot = null", after the await
restored(w, t, node) ==
    [w EXCEPT ![t] = [@ EXCEPT !.root = restoreNode(node, FreshOid),
                               !.serializedRoot = Null]]

\* loadURL of a restored leaf resolved: the rest of its make (focus,
\* sendState to the new pane); then restoreNode makes the next leaf, or,
\* after the last one, hands the rebuilt tree to the target workspace,
\* serializedRoot is cleared and the target becomes active
RestoreStep(i) ==
    /\ windowOpen
    /\ i \in 1..Len(pendingSwitches)
    /\ pendingSwitches[i].stage = "restore"
    /\ LET p == pendingSwitches[i]
           ids == LeafSeq(p.node)
           id == ids[p.made]
           last1 == focus(id, lastActivePaneId)
           w2 == restored(wsObjs, p.target, p.node)
       IN  IF id \notin paneById \/ HasNullChild(root)
           THEN \* the pane was closed while it loaded (getTitle on the
                \* destroyed view throws), or sendState in make throws: the
                \* switch is abandoned
                /\ lastActivePaneId' = last1
                /\ pendingSwitches' = without(pendingSwitches, i)
                /\ lastOp' = [op |-> "restoreDone", id |-> p.target, ret |-> "throw"]
                /\ UNCHANGED << root, paneById, layers, attached, delivered, mapVars, wsObjs,
                                saveVars,
                                activeWorkspaceId, focusTimers >>
           ELSE IF p.made < Len(ids)
           THEN /\ makeProvided(ids[p.made + 1])
                /\ attached' = attached \cup {ids[p.made + 1]}
                /\ delivered' = MapSet(sendState(delivered, root, id), ids[p.made + 1], << >>)
                /\ lastActivePaneId' = last1
                /\ pendingSwitches' = [pendingSwitches EXCEPT ![i].made = p.made + 1]
                /\ lastOp' = [op |-> "restoreStep", id |-> id, ret |-> "await"]
                /\ UNCHANGED << root, wsObjs, activeWorkspaceId, focusTimers,
                                saveVars,
                                searchDebounceTimers, searchTimers >>
           ELSE /\ switchTail(w2, p.target, attached)
                /\ delivered' = sendState(delivered, root, id)
                /\ pendingSwitches' = without(pendingSwitches, i)
                /\ lastOp' = [op |-> "restoreDone", id |-> p.target, ret |-> "true"]
                /\ UNCHANGED << paneById, layers, mapVars >>
    /\ UNCHANGED << nextId, paneCap, pendingSplits, nudges, windowOpen, workspaces,
                    nextWs, switches, pendingCreates, keyVars >>

\* createWorkspace up to await this.window.make(): index is -1 when the
\* caller gave none; thenSwitch marks a call from switchToWorkspaceByIndex
createStart(kp, index, thenSwitch) ==
    LET workspaceIndex == IF index = -1 THEN getNextAvailableIndex ELSE index
    IN  /\ Cardinality(workspaces) < maxWorkspaces
        /\ workspaceIndex # -1
        /\ nextId <= paneCap
        /\ nextWs <= MaxWorkspaces
        /\ makeRegistered(nextId)
        /\ delivered' = IF HasNullChild(root) THEN MapSet(delivered, nextId, << >>)
                        ELSE sendState(MapSet(delivered, nextId, << >>), root, kp)
        /\ pendingCreates' = pendingCreates \cup
               { [index |-> workspaceIndex, pane |-> nextId, thenSwitch |-> thenSwitch] }
        /\ nextWs' = nextWs + 1
        /\ UNCHANGED << root, lastActivePaneId, paneCap, pendingSplits, nudges, saveVars,
                        windowOpen, searchDebounceTimers, searchTimers, wsObjs, workspaces,
                        activeWorkspaceId, switches, pendingSwitches, focusTimers >>

\* handleWorkspaceCreate ("workspace:create")
HandleWorkspaceCreate(index) ==
    /\ windowOpen
    /\ createStart(NoId, index, FALSE)
    /\ lastOp' = [op |-> "create", id |-> NoId, ret |-> "await"]
    /\ UNCHANGED keyVars

\* switchToWorkspaceByIndex (meta+1 .. meta+9) up to its first await; kp as
\* in splitStart
switchToWorkspaceByIndex(kp, index) ==
    /\ windowOpen
    /\ IF getWorkspaceByIndex(index) = 0
       THEN /\ createStart(kp, index, TRUE)
            /\ lastOp' = [op |-> "create", id |-> NoId, ret |-> "await"]
       ELSE /\ Len(pendingSwitches) < MaxPendingSwitches
            /\ switches < MaxSwitches
            /\ switches' = switches + 1
            /\ switchStart(wsObjs, workspaces, getWorkspaceByIndex(index))
            /\ lastOp' = [op |-> "switch", id |-> getWorkspaceByIndex(index), ret |-> "await"]
            /\ LET d1 == [x \in paneById' \ paneById |-> << >>] @@ delivered
               IN  delivered' = IF HasNullChild(root') THEN d1
                                 ELSE sendState(d1, root', kp)
            /\ UNCHANGED << nextId, paneCap, pendingSplits, nudges, windowOpen,
                            searchDebounceTimers, searchTimers, workspaces, nextWs, pendingCreates >>

\* switchToWorkspaceByIndex called outside a key event
SwitchToWorkspaceByIndex(index) ==
    /\ switchToWorkspaceByIndex(NoId, index)
    /\ UNCHANGED keyVars

\* loadURL of the new workspace's pane resolved: the rest of make, the
\* Workspace object, and for switchToWorkspaceByIndex the switch to it
CreateFinish(c) ==
    LET id == Cardinality(DOMAIN wsObjs) + 1
        obj == [index |-> c.index, root |-> Leaf(c.pane), serializedRoot |-> Null,
                lastActivePaneId |-> c.pane, isActive |-> FALSE]
        w1 == MapSet(wsObjs, id, obj)
        last1 == focus(c.pane, lastActivePaneId)
        hidden == hideWorkspacePanes(attached, obj.root, paneById)
    IN  /\ windowOpen
        /\ c \in pendingCreates
        /\ pendingCreates' = pendingCreates \ {c}
        /\ IF HasNullChild(root)
           THEN \* sendState in make throws: no workspace is created
                /\ lastActivePaneId' = last1
                /\ lastOp' = [op |-> "createDone", id |-> NoId, ret |-> "throw"]
                /\ UNCHANGED << root, attached, delivered, wsObjs, workspaces,
                                activeWorkspaceId, saveVars,
                                pendingSwitches, focusTimers >>
           ELSE /\ delivered' = sendState(delivered, root, c.pane)
                /\ workspaces' = workspaces \cup {id}
                /\ lastOp' = [op |-> "createDone", id |-> id, ret |-> "ok"]
                /\ debouncedSave
                /\ IF c.thenSwitch
                   THEN LET cur == IF activeWorkspaceId \in workspaces
                                   THEN activeWorkspaceId ELSE 0
                        IN  IF cur # 0
                            THEN /\ pendingSwitches' = Append(pendingSwitches,
                                        Capturing(id, cur))
                                 /\ wsObjs' = w1
                                 /\ lastActivePaneId' = last1
                                 /\ attached' = hidden
                                 /\ UNCHANGED << root, activeWorkspaceId, focusTimers >>
                            ELSE /\ switchTail(w1, id, hidden)
                                 /\ UNCHANGED pendingSwitches
                   ELSE /\ wsObjs' = w1
                        /\ lastActivePaneId' = last1
                        /\ attached' = hidden
                        /\ UNCHANGED << root, activeWorkspaceId, pendingSwitches,
                                        focusTimers >>
        /\ UNCHANGED << paneById, layers, nextId, paneCap, pendingSplits, nudges,
                        windowOpen, mapVars, nextWs, switches, keyVars >>

\* the 50 ms timer of switchToWorkspace: focus(targetWorkspace.lastActivePaneId)
FocusTimer(t) ==
    /\ windowOpen
    /\ t \in focusTimers
    /\ focusTimers' = focusTimers \ {t}
    /\ lastActivePaneId' = IF wsObjs[t].lastActivePaneId # NoId
                           THEN focus(wsObjs[t].lastActivePaneId, lastActivePaneId)
                           ELSE lastActivePaneId
    /\ lastOp' = [op |-> "focusTimer", id |-> t, ret |-> "ok"]
    /\ UNCHANGED << root, paneById, layers, attached, nextId, paneCap, pendingSplits, nudges, saveVars,
                    windowOpen, delivered, mapVars, wsObjs, workspaces,
                    activeWorkspaceId, nextWs, switches, pendingCreates, pendingSwitches,
                    keyVars >>

(* ------------------------- Window.getNeighbor ------------------------- *)
Abs(x) == IF x < 0 THEN 0 - x ELSE x

\* a getNeighbor that finds no pane on any side
getNeighbor_none(list, currentId, dir) == NoId

\* getNeighbor over the list getAll() returns; NoId for null.  Centres and
\* distances are doubled so that they stay integers; the angle ratios
\* secondary / max(1, primary) are compared by cross-multiplication
getNeighbor(list, currentId, dir) ==
    LET hits == { i \in 1..Len(list) : list[i].id = currentId }
    IN  IF hits = {} THEN NoId
        ELSE
        LET cur == list[CHOOSE i \in hits : \A j \in hits : i <= j].rect
            isHorizontal == dir \in {"left", "right"}
            dx(r) == Cx2(r) - Cx2(cur)
            dy(r) == Cy2(r) - Cy2(cur)
            correctSide(r) ==
                IF dir = "left" THEN dx(r) < 0
                ELSE IF dir = "right" THEN dx(r) > 0
                ELSE IF dir = "up" THEN dy(r) < 0
                ELSE dy(r) > 0
            overlapsOrth(r) ==
                IF isHorizontal
                THEN Max(cur.y, r.y) < Min(cur.y + cur.height, r.y + r.height)
                ELSE Max(cur.x, r.x) < Min(cur.x + cur.width, r.x + r.width)
            primary(i) == Abs(IF isHorizontal THEN dx(list[i].rect) ELSE dy(list[i].rect))
            secondary(i) == Abs(IF isHorizontal THEN dy(list[i].rect) ELSE dx(list[i].rect))
            cands == { i \in 1..Len(list) :
                         list[i].id # currentId /\ correctSide(list[i].rect) }
            overlapCands == { i \in cands : overlapsOrth(list[i].rect) }
            fallbackCands == cands \ overlapCands
            byPrimary(i, j) ==
                \/ primary(i) < primary(j)
                \/ /\ primary(i) = primary(j)
                   /\ \/ secondary(i) < secondary(j)
                      \/ secondary(i) = secondary(j) /\ list[i].id <= list[j].id
            angL(i, j) == secondary(i) * Max(2, primary(j))
            dist(i) == primary(i) * primary(i) + secondary(i) * secondary(i)
            byAngle(i, j) ==
                \/ angL(i, j) < angL(j, i)
                \/ /\ angL(i, j) = angL(j, i)
                   /\ \/ dist(i) < dist(j)
                      \/ dist(i) = dist(j) /\ list[i].id <= list[j].id
        IN  IF overlapCands # {}
            THEN list[CHOOSE i \in overlapCands : \A j \in overlapCands : byPrimary(i, j)].id
            ELSE IF fallbackCands # {}
            THEN list[CHOOSE i \in fallbackCands : \A j \in fallbackCands : byAngle(i, j)].id
            ELSE NoId

\* onPanesNavigate: kp as in splitStart
panesNavigate(kp, id, dir) ==
    LET start == IF lastActivePaneId # NoId THEN lastActivePaneId ELSE id
        next == getNeighbor(PaneList(root), start, dir)
    IN  /\ windowOpen
        /\ IF start \notin paneById
           THEN /\ lastOp' = [op |-> "navigate", id |-> start, ret |-> "undefined"]
                /\ UNCHANGED lastActivePaneId
                /\ delivered' = IF HasNullChild(root) THEN delivered
                                ELSE sendState(delivered, root, kp)
           ELSE IF HasNullChild(root)
           THEN /\ lastOp' = [op |-> "navigate", id |-> start, ret |-> "throw"]
                /\ UNCHANGED << lastActivePaneId, delivered >>
           ELSE /\ lastActivePaneId' = IF next # NoId /\ next \in paneById
                                       THEN next ELSE lastActivePaneId
                /\ lastOp' = [op |-> "navigate", id |-> start,
                              ret |-> IF next # NoId /\ next \in paneById
                                      THEN "ok" ELSE "undefined"]
                /\ delivered' = sendState(delivered, root, kp)
        /\ IF lastOp'.ret = "ok" THEN debouncedSave ELSE UNCHANGED saveVars
        /\ UNCHANGED << root, paneById, layers, attached, nextId, paneCap, pendingSplits,
                        nudges, windowOpen, mapVars, wsVars >>

\* onPanesNavigate ("panes:navigate")
OnPanesNavigate(id, dir) ==
    /\ panesNavigate(NoId, id, dir)
    /\ UNCHANGED keyVars

(* --------------------- the keybinding tables -------------------------- *)
\* an Electron.Input of type keyDown
Input(k, m, s, a, c) == [key |-> k, meta |-> m, shift |-> s, alt |-> a, control |-> c]

\* String.toLowerCase on the keys the model sends
toLowerCase(k) ==
    IF k = "G" THEN "g" ELSE IF k = "H" THEN "h" ELSE IF k = "L" THEN "l"
    ELSE IF k = "Escape" THEN "escape" ELSE IF k = "Backspace" THEN "backspace"
    ELSE IF k = "Enter" THEN "enter" ELSE k

\* buildKeybindString: the modifiers in the order meta, shift, alt, control,
\* then the lower-cased key; the "+"-joined string is kept as its parts
buildKeybindString(input) ==
    (IF input.meta THEN << "meta" >> ELSE << >>)
      \o (IF input.shift THEN << "shift" >> ELSE << >>)
      \o (IF input.alt THEN << "alt" >> ELSE << >>)
      \o (IF input.control THEN << "control" >> ELSE << >>)
      \o << toLowerCase(input.key) >>


\* overlayKeys
overlayKeys ==
    { << << "f" >>, Bind("biscuits", "") >>,
      << << "g" >>, Bind("scrollToTop", "") >>,
      << << "j" >>, Bind("scroll", "down") >>,
      << << "k" >>, Bind("scroll", "up") >>,
      << << "m" >>, Bind("toggleMute", "") >>,
      << << "shift", "g" >>, Bind("scrollToBottom", "") >>,
      << << "shift", "d" >>, Bind("scroll", "pageDown") >>,
      << << "shift", "u" >>, Bind("scroll", "pageUp") >>,
      << << "control", "h" >>, Bind("navigate", "left") >>,
      << << "control", "l" >>, Bind("navigate", "right") >>,
      << << "control", "k" >>, Bind("navigate", "up") >>,
      << << "control", "j" >>, Bind("navigate", "down") >>,
      << << "shift", "h" >>, Bind("split", "left") >>,
      << << "shift", "l" >>, Bind("split", "right") >>,
      << << "shift", "k" >>, Bind("split", "up") >>,
      << << "shift", "j" >>, Bind("split", "down") >> }

\* paneKeys
paneKeys ==
    { << << "meta", "l" >>, Bind("overlay", "") >>,
      << << "meta", "1" >>, Bind("switchByIndex", "0") >>,
      << << "meta", "2" >>, Bind("switchByIndex", "1") >>,
      << << "meta", "3" >>, Bind("switchByIndex", "2") >>,
      << << "meta", "4" >>, Bind("switchByIndex", "3") >>,
      << << "meta", "5" >>, Bind("switchByIndex", "4") >>,
      << << "meta", "6" >>, Bind("switchByIndex", "5") >>,
      << << "meta", "7" >>, Bind("switchByIndex", "6") >>,
      << << "meta", "8" >>, Bind("switchByIndex", "7") >>,
      << << "meta", "9" >>, Bind("switchByIndex", "8") >>,
      << << "meta", "r" >>, Bind("reload", "") >>,
      << << "meta", "shift", "r" >>, Bind("reloadIgnoringCache", "") >>,
      << << "meta", "[" >>, Bind("goBack", "") >>,
      << << "meta", "]" >>, Bind("goForward", "") >> }

\* appKeys
appKeys ==
    { << << "meta", "w" >>, Bind("close", "") >>,
      << << "meta", "shift", "h" >>, Bind("resize", "left") >>,
      << << "meta", "shift", "l" >>, Bind("resize", "right") >>,
      << << "meta", "shift", "k" >>, Bind("resize", "up") >>,
      << << "meta", "shift", "j" >>, Bind("resize", "down") >> }

\* allKeybinds, had it spread overlayKeys in every mode
allKeybinds_everyMode(overlay, biscuitsActive) == overlayKeys \cup paneKeys \cup appKeys

\* allKeybinds: overlayKeys only with the overlay closed and hint mode off
allKeybinds(overlay, biscuitsActive) ==
    (IF overlay = FALSE /\ ~biscuitsActive THEN overlayKeys ELSE {})
        \cup paneKeys \cup appKeys

\* allKeybinds[keybindString]
lookup(table, ks) ==
    IF \E e \in table : e[1] = ks
    THEN (CHOOSE e \in table : e[1] = ks)[2]
    ELSE NoBinding

\* the index argument of switchToWorkspaceByIndex in the meta+N bindings
indexOf(arg) ==
    IF arg = "0" THEN 0 ELSE IF arg = "1" THEN 1 ELSE IF arg = "2" THEN 2
    ELSE IF arg = "3" THEN 3 ELSE IF arg = "4" THEN 4 ELSE IF arg = "5" THEN 5
    ELSE IF arg = "6" THEN 6 ELSE IF arg = "7" THEN 7 ELSE 8

\* the dir of the split a side belongs to (shift+h/l vertical, shift+k/j horizontal)
splitDirOf(side) == IF side \in {"left", "right"} THEN "vertical" ELSE "horizontal"

\* HINT_CHARS
HINT_CHARS ==
    << "a", "s", "d", "g", "h", "j", "k", "l", "q", "w", "e", "r",
       "t", "u", "i", "o", "p", "z", "x", "c", "v", "b", "n", "m" >>

\* keys whose name is one character (key.length === 1)
SingleCharKeys == SeqToSet(HINT_CHARS) \cup {"f", "y", "1", "2", "3", "[", "]"}

\* the handler, had its hint-mode block swallowed the keys that are no hint
\* characters instead of leaving hint mode on them
dispatch_noCancel(overlay, hasBiscuitState, biscuitState, isTyping, input) ==
    LET biscuitsActive == hasBiscuitState /\ biscuitState.active
        key == toLowerCase(input.key)
        plain == ~input.control /\ ~input.meta /\ ~input.alt
        keybind == lookup(allKeybinds(overlay, biscuitsActive), buildKeybindString(input))
    IN  IF hasBiscuitState /\ biscuitsActive
        THEN IF key = "escape" THEN [ran |-> Bind("hintEscape", ""), prevented |-> TRUE]
             ELSE IF key \in SeqToSet(HINT_CHARS) /\ plain
             THEN [ran |-> Bind("hintChar", key), prevented |-> TRUE]
             ELSE [ran |-> NoBinding, prevented |-> plain]
        ELSE IF keybind # NoBinding
        THEN [ran |-> keybind, prevented |-> TRUE]
        ELSE [ran |-> NoBinding, prevented |-> FALSE]

\* isTypingKey, had it also required no shift
isTypingKey_noShift(input) ==
    ~input.meta /\ ~input.control /\ ~input.alt /\ ~input.shift

\* isTypingKey
isTypingKey(input) == ~input.meta /\ ~input.control /\ ~input.alt

\* the before-input-event handler as a decision: which code runs for the
\* key and whether the event is prevented.  ran.fn is a binding's name, or
\*   hintEscape / hintChar / hintBackspace / hintCancel: the hint-mode block
\*   blurPage: Escape while typing;  none: the handler returns
dispatch(overlay, hasBiscuitState, biscuitState, isTyping, input) ==
    LET biscuitsActive == hasBiscuitState /\ biscuitState.active
        key == toLowerCase(input.key)
        plain == ~input.control /\ ~input.meta /\ ~input.alt
        keybind == lookup(allKeybinds(overlay, biscuitsActive), buildKeybindString(input))
    IN  IF hasBiscuitState /\ biscuitsActive
        THEN IF key = "escape" THEN [ran |-> Bind("hintEscape", ""), prevented |-> TRUE]
             ELSE IF key \in SeqToSet(HINT_CHARS) /\ plain
             THEN [ran |-> Bind("hintChar", key), prevented |-> TRUE]
             ELSE IF key = "backspace" /\ Len(biscuitState.typed) > 0
             THEN [ran |-> Bind("hintBackspace", ""), prevented |-> TRUE]
             ELSE IF key \in SingleCharKeys /\ plain
             THEN [ran |-> Bind("hintCancel", ""), prevented |-> TRUE]
             ELSE [ran |-> NoBinding, prevented |-> FALSE]
        ELSE IF key = "escape" /\ ~overlay
        THEN IF isTyping THEN [ran |-> Bind("blurPage", ""), prevented |-> TRUE]
             ELSE [ran |-> NoBinding, prevented |-> FALSE]
        ELSE IF keybind # NoBinding
        THEN IF isTypingKey(input) /\ ~overlay /\ ~biscuitsActive /\ isTyping
             THEN [ran |-> NoBinding, prevented |-> FALSE]
             ELSE [ran |-> keybind, prevented |-> TRUE]
        ELSE [ran |-> NoBinding, prevented |-> FALSE]

(* ---------------------- hint mode, the page side --------------------- *)

\* getLabels(n): one-character labels while they suffice, else the
\* two-character labels first + second in loop order
getLabels(n) ==
    LET L == Len(HINT_CHARS)
        itemsPerFirstChar == (n + L - 1) \div L
        charsNeededForSecond == Min(itemsPerFirstChar, L)
    IN  IF n <= L THEN [i \in 1..n |-> << HINT_CHARS[i] >>]
        ELSE IF itemsPerFirstChar = 1 THEN [i \in 1..L |-> << HINT_CHARS[i] >>]
        ELSE [k \in 1..Min(n, L * charsNeededForSecond) |->
                 << HINT_CHARS[((k - 1) \div charsNeededForSecond) + 1],
                    HINT_CHARS[((k - 1) % charsNeededForSecond) + 1] >>]

\* overlay.map[typed], had it returned the first target for any label typed
exactMatch_first(labels, typed) ==
    IF \E i \in 1..Len(labels) : labels[i] = typed THEN {1} ELSE {}

\* overlay.map[typed]: the targets whose label is typed (0 or 1 of them,
\* the last one winning if a label were repeated)
exactMatch(labels, typed) ==
    LET hits == { i \in 1..Len(labels) : labels[i] = typed }
    IN  IF hits = {} THEN {} ELSE { CHOOSE i \in hits : \A j \in hits : j <= i }

\* getTargets().length on the pages of the model: none, a few, and one more
\* than there are one-character labels
TargetCounts == {0, MaxTargets, Len(HINT_CHARS) + 1}

\* webContents.send to the pane's page
send(q, p, m) == [q EXCEPT ![p] = Append(@, m)]

\* the preload handlers of pane:biscuits:activate / deactivate / update:
\* activate(), deactivate() and updateTyped() with checkSelection and
\* performSelection; n is the number of targets getTargets() finds
PageRecv(p, n) ==
    /\ windowOpen
    /\ p \in paneById
    /\ toPage[p] # << >>
    /\ IF Head(toPage[p]).type = "activate" /\ ~page[p].overlay
       THEN n \in TargetCounts ELSE n = 0
    /\ LET m == Head(toPage[p])
           pg == page[p]
           labels == IF pg.overlay THEN getLabels(pg.n) ELSE << >>
           match == IF m.type = "update" /\ pg.overlay /\ m.typed # << >>
                    THEN exactMatch(labels, m.typed) ELSE {}
       IN  /\ toPage' = [toPage EXCEPT ![p] = Tail(@)]
           /\ IF m.type = "activate"
              THEN /\ page' = IF pg.overlay THEN page
                              ELSE [page EXCEPT ![p] = [overlay |-> TRUE, n |-> n,
                                                         typed |-> << >>]]
                   /\ UNCHANGED toMain
                   /\ lastPage' = NoPageStep
              ELSE IF m.type = "deactivate"
              THEN /\ page' = [page EXCEPT ![p] = NoPage]
                   /\ UNCHANGED toMain
                   /\ lastPage' = NoPageStep
              ELSE /\ lastPage' = [pane |-> p, typed |-> m.typed, labels |-> labels,
                                   activated |-> match]
                   /\ IF match = {}
                      THEN /\ page' = [page EXCEPT ![p].typed = m.typed]
                           /\ UNCHANGED toMain
                      ELSE /\ Len(toMain) < MaxQueue
                           /\ page' = [page EXCEPT ![p] = NoPage]
                           /\ toMain' = Append(toMain, p)
           /\ lastOp' = [op |-> "page", id |-> p, ret |-> m.type]
    /\ UNCHANGED << winVars, mapVars, wsVars, lastKey, keys, call, pendingSyncs, leaves >>

\* the MutationObserver of activate(): deactivate(), then activate() again
\* unless the document is loading
PageMutation(p, loading, n) ==
    /\ windowOpen
    /\ p \in paneById
    /\ page[p].overlay
    /\ IF loading THEN n = 0 ELSE n \in TargetCounts
    /\ page' = [page EXCEPT ![p] = IF loading THEN NoPage
                                   ELSE [overlay |-> TRUE, n |-> n, typed |-> << >>]]
    /\ page'[p] # page[p]
    /\ lastPage' = NoPageStep
    /\ lastOp' = [op |-> "mutation", id |-> p, ret |-> "ok"]
    /\ UNCHANGED << winVars, mapVars, wsVars, lastKey, keys, call, toPage, toMain, pendingSyncs, leaves >>

\* onBiscuitsCompleted ("pane:biscuits:completed")
OnBiscuitsCompleted ==
    /\ windowOpen
    /\ toMain # << >>
    /\ LET p == Head(toMain)
       IN  /\ toMain' = Tail(toMain)
           /\ biscuitStates' = IF p \in DOMAIN biscuitStates
                               THEN [biscuitStates EXCEPT ![p] = NewBiscuitState]
                               ELSE biscuitStates
           /\ IF p \in paneById
              THEN /\ Len(toPage[p]) < MaxQueue
                   /\ toPage' = send(toPage, p, Msg("deactivate", << >>))
              ELSE UNCHANGED toPage
           /\ lastOp' = [op |-> "biscuitsCompleted", id |-> p, ret |-> "ok"]
    /\ UNCHANGED << winVars, searchStates, overlayStates, typingStates,
                    searchDebounceTimers, searchTimers, wsVars, lastKey, keys, call, page, lastPage,
                    pendingSyncs, leaves >>

(* ------------------- navigation, typing, search ---------------------- *)
\* handleNavigation (did-navigate, did-navigate-in-page): a navigation to a
\* new document starts a fresh page, and what was in flight to the old one
\* may or may not reach the new one
HandleNavigation(p, u, inPage, drop) ==
    /\ windowOpen
    /\ p \in paneById
    /\ biscuitStates' = IF p \in DOMAIN biscuitStates
                        THEN [biscuitStates EXCEPT ![p] = NewBiscuitState]
                        ELSE biscuitStates
    /\ typingStates' = MapSet(typingStates, p, FALSE)
    /\ pendingSyncs' = pendingSyncs \cup
           { [pane |-> p, current |-> u,
              urlChanged |-> u # leaves[p].url /\ u # "data:"] }
    /\ leaves' = IF u = "data:" THEN leaves ELSE [leaves EXCEPT ![p].url = u]
    /\ inPage => ~drop
    /\ page' = IF inPage THEN page ELSE [page EXCEPT ![p] = NoPage]
    /\ toPage' = IF drop THEN [toPage EXCEPT ![p] = << >>] ELSE toPage
    /\ lastOp' = [op |-> "navigation", id |-> p, ret |-> "ok"]
    /\ debouncedSave
    /\ UNCHANGED << root, paneById, layers, attached, lastActivePaneId, nextId, paneCap,
                    pendingSplits, nudges, windowOpen, delivered, searchStates,
                    overlayStates, searchDebounceTimers, searchTimers, wsVars, lastKey, keys, call,
                    toMain, lastPage >>

\* sync() after its awaits, for the url it read when it started: with
\* urlChanged the image and description come from the HTML fetched from
\* that url when it has the og: tags ("match"), stay as they are when it
\* has none ("none"), and come from the DOM when fetch fails ("error");
\* favicon and colours come from the DOM; then the search query follows
\* the leaf url and the list goes to every pane
SyncBroadcast(s, got) ==
    /\ windowOpen
    /\ s \in pendingSyncs
    /\ pendingSyncs' = pendingSyncs \ {s}
    /\ leaves' =
          IF ~s.urlChanged THEN leaves
          ELSE [leaves EXCEPT ![s.pane] =
                   [url |-> leaves[s.pane].url,
                    image |-> IF got = "match" THEN s.current
                              ELSE IF got = "error" THEN leaves[s.pane].url
                              ELSE leaves[s.pane].image,
                    favicon |-> leaves[s.pane].url]]
    /\ searchStates' = IF s.pane \in DOMAIN searchStates
                       THEN [searchStates EXCEPT ![s.pane].query = leaves[s.pane].url]
                       ELSE searchStates
    /\ IF HasNullChild(root)
       THEN /\ UNCHANGED delivered
            /\ lastOp' = [op |-> "sync", id |-> s.pane, ret |-> "throw"]
       ELSE /\ delivered' = [q \in DOMAIN delivered |-> PaneList(root)]
            /\ lastOp' = [op |-> "sync", id |-> s.pane, ret |-> "ok"]
    /\ UNCHANGED << root, paneById, layers, attached, lastActivePaneId, nextId, paneCap,
                    pendingSplits, nudges, saveVars, windowOpen, overlayStates, biscuitStates,
                    typingStates, searchDebounceTimers, searchTimers, wsVars, lastKey, keys, call, page,
                    toPage, toMain, lastPage >>

\* handleTypingUpdate ("pane:typing:update"), sent by the page on focusin
\* and focusout; the message may arrive after its pane was closed
HandleTypingUpdate(p, isTyping) ==
    /\ windowOpen
    /\ p \in 1..(nextId - 1)
    /\ typingStates' = MapSet(typingStates, p, isTyping)
    /\ typingStates' # typingStates
    /\ lastOp' = [op |-> "typingUpdate", id |-> p, ret |-> "ok"]
    /\ UNCHANGED << winVars, searchStates, overlayStates, biscuitStates,
                    searchDebounceTimers, searchTimers, wsVars, keyVars >>

\* Pane.reverse(): the two layers swap, the other one is on top
reverse(l, p) == [l EXCEPT ![p] = IF @ = "content" THEN "overlay" ELSE "content"]

\* String.trim on the queries the model sends
trim(q) == IF q = " " THEN "" ELSE q
Queries == {"", " ", "example.com"}
\* isLikelyUrl and normalizeUrlSmart on the trimmed queries the model sends:
\* only "example.com" has a dot between two letters, and it has no scheme,
\* no port and is neither localhost nor an IPv4 address
isLikelyUrl(s) == s = "example.com"
normalizeUrlSmart(s) == IF s = "example.com" THEN "https://example.com" ELSE s

\* handleSearchInput ("search:input")
HandleSearchInput(p, q) ==
    /\ windowOpen
    /\ p \in paneById
    /\ searchStates' = MapSet(searchStates, p, [query |-> q, isFocused |-> TRUE])
    /\ LET kept == clearTimeout(p)
           used == { t.h : t \in kept }
           h == CHOOSE n \in 1..(Cardinality(used) + 1) : n \notin used
       IN  /\ searchTimers' = kept \cup {[pane |-> p, h |-> h, query |-> q]}
           /\ searchDebounceTimers' = MapSet(searchDebounceTimers, p, h)
    /\ lastOp' = [op |-> "searchInput", id |-> p, ret |-> "ok"]
    /\ UNCHANGED << winVars, overlayStates, biscuitStates, typingStates, wsVars,
                    keyVars >>

\* handleSearchSubmit ("search:submit")
HandleSearchSubmit(p, q) ==
    /\ windowOpen
    /\ p \in paneById
    /\ searchTimers' = clearTimeout(p)
    /\ searchDebounceTimers' = MapDel(searchDebounceTimers, p)
    /\ IF trim(q) = ""
       THEN /\ lastOp' = [op |-> "searchSubmit", id |-> p, ret |-> "undefined"]
            /\ UNCHANGED << layers, attached, overlayStates, searchStates >>
       ELSE /\ layers' = reverse(layers, p)
            /\ attached' = attached \cup {p}
            /\ overlayStates' = MapSet(overlayStates, p, FALSE)
            /\ searchStates' = IF p \in DOMAIN searchStates
                               THEN [searchStates EXCEPT ![p].isFocused = FALSE]
                               ELSE searchStates
            /\ lastOp' = [op |-> "searchSubmit", id |-> p, ret |-> "ok"]
    /\ UNCHANGED << root, paneById, lastActivePaneId, nextId, paneCap, pendingSplits,
                    nudges, saveVars, windowOpen, delivered, biscuitStates, typingStates,
                    wsVars, keyVars >>

\* the timeout handleSearchInput armed fires: processSearchDebounced with
\* the query of that input; the handle stays in searchDebounceTimers
ProcessSearchDebounced(t) ==
    /\ t \in searchTimers
    /\ searchTimers' = searchTimers \ {t}
    /\ lastOp' = [op |-> "searchDebounced", id |-> t.pane,
                  ret |-> IF /\ trim(t.query) # ""
                             /\ isLikelyUrl(trim(t.query))
                             /\ t.pane \in paneById
                          THEN normalizeUrlSmart(trim(t.query))
                          ELSE "undefined"]
    /\ UNCHANGED << winVars, searchStates, overlayStates, biscuitStates,
                    typingStates, searchDebounceTimers, wsVars, keyVars >>

\* handlePaneOverlay ("pane:overlay"): pane.reverse() and nothing else
HandlePaneOverlay(id) ==
    /\ windowOpen
    /\ IF id \in paneById
       THEN /\ layers' = reverse(layers, id)
            /\ attached' = attached \cup {id}
            /\ lastOp' = [op |-> "paneOverlay", id |-> id, ret |-> "ok"]
       ELSE /\ lastOp' = [op |-> "paneOverlay", id |-> id, ret |-> "undefined"]
            /\ UNCHANGED << layers, attached >>
    /\ UNCHANGED << root, paneById, lastActivePaneId, nextId, paneCap, pendingSplits,
                    nudges, saveVars, windowOpen, delivered, mapVars, wsVars, keyVars >>

\* handleSearchBlur ("search:blur"), sent by the overlay on Escape
HandleSearchBlur(p) ==
    /\ windowOpen
    /\ p \in paneById
    /\ searchStates' = IF p \in DOMAIN searchStates
                       THEN [searchStates EXCEPT ![p].isFocused = FALSE]
                       ELSE searchStates
    /\ lastOp' = [op |-> "searchBlur", id |-> p, ret |-> "ok"]
    /\ UNCHANGED << winVars, overlayStates, biscuitStates, typingStates,
                    searchDebounceTimers, searchTimers, wsVars, keyVars >>

(* -------------------- the before-input-event handler ------------------ *)
\* what a binding did beyond computing: "none" when its guard kept it from
\* acting (goBack / goForward with the overlay open or no history)
effectOf(ran, overlay, canGo) ==
    IF ran.fn \in {"goBack", "goForward"} /\ (overlay \/ ~canGo) THEN "none"
    ELSE ran.fn

\* the handler of one keyDown event on pane p (either layer); canGo is
\* webContents.canGoBack() / canGoForward()
KeyDown(p, input, canGo) ==
    LET overlay == IF p \in DOMAIN overlayStates THEN overlayStates[p] ELSE FALSE
        hasB == p \in DOMAIN biscuitStates
        bs == IF hasB THEN biscuitStates[p] ELSE NewBiscuitState
        isTyping == IF p \in DOMAIN typingStates THEN typingStates[p] ELSE FALSE
        d == dispatch(overlay, hasB, bs, isTyping, input)
        fn == d.ran.fn
        keyOp == [op |-> "key", id |-> p, ret |-> fn]
    IN  /\ windowOpen
        /\ p \in paneById
        /\ p \in LeafSet(root)
        /\ canGo => toLowerCase(input.key) \in {"[", "]"}
        /\ keys < MaxKeys
        /\ keys' = keys + 1
        /\ UNCHANGED << call, page, toMain, lastPage >>
        /\ IF fn \in {"hintEscape", "hintCancel"}
           THEN /\ Len(toPage[p]) < MaxQueue
                /\ biscuitStates' = [biscuitStates EXCEPT ![p] = NewBiscuitState]
                /\ toPage' = send(toPage, p, Msg("deactivate", << >>))
                /\ lastOp' = keyOp
                /\ UNCHANGED << winVars, searchStates, overlayStates, typingStates,
                                searchDebounceTimers, searchTimers, wsVars, pendingSyncs, leaves >>
           ELSE IF fn = "hintChar"
           THEN /\ Len(toPage[p]) < MaxQueue
                /\ Len(bs.typed) < MaxTyped
                /\ biscuitStates' = [biscuitStates EXCEPT
                                        ![p].typed = Append(@, d.ran.arg)]
                /\ toPage' = send(toPage, p, Msg("update", Append(bs.typed, d.ran.arg)))
                /\ lastOp' = keyOp
                /\ UNCHANGED << winVars, searchStates, overlayStates, typingStates,
                                searchDebounceTimers, searchTimers, wsVars, pendingSyncs, leaves >>
           ELSE IF fn = "hintBackspace"
           THEN /\ Len(toPage[p]) < MaxQueue
                /\ biscuitStates' = [biscuitStates EXCEPT
                                        ![p].typed = SubSeq(@, 1, Len(@) - 1)]
                /\ toPage' = send(toPage, p,
                                  Msg("update", SubSeq(bs.typed, 1, Len(bs.typed) - 1)))
                /\ lastOp' = keyOp
                /\ UNCHANGED << winVars, searchStates, overlayStates, typingStates,
                                searchDebounceTimers, searchTimers, wsVars, pendingSyncs, leaves >>
           ELSE IF fn = "biscuits"
           THEN \* the "f" binding; the dispatcher then sends the list
                /\ Len(toPage[p]) < MaxQueue
                /\ biscuitStates' =
                      IF ~hasB THEN biscuitStates
                      ELSE IF bs.active THEN [biscuitStates EXCEPT ![p] = NewBiscuitState]
                      ELSE IF ~overlay
                      THEN [biscuitStates EXCEPT ![p] = [active |-> TRUE, typed |-> << >>]]
                      ELSE biscuitStates
                /\ toPage' =
                      IF ~hasB THEN toPage
                      ELSE IF bs.active THEN send(toPage, p, Msg("deactivate", << >>))
                      ELSE IF ~overlay THEN send(toPage, p, Msg("activate", << >>))
                      ELSE toPage
                /\ delivered' = IF HasNullChild(root) THEN delivered
                                ELSE sendState(delivered, root, p)
                /\ lastOp' = keyOp
                /\ UNCHANGED << root, paneById, layers, attached, lastActivePaneId, nextId,
                                paneCap, pendingSplits, nudges, saveVars, windowOpen,
                                searchStates, overlayStates, typingStates,
                                searchDebounceTimers, searchTimers, wsVars, pendingSyncs, leaves >>
           ELSE IF fn = "overlay"
           THEN \* meta+l: sync() when opening, reverse(), overlayStates toggled
                /\ Len(toPage[p]) < MaxQueue
                /\ biscuitStates' = IF hasB /\ bs.active
                                    THEN [biscuitStates EXCEPT ![p] = NewBiscuitState]
                                    ELSE biscuitStates
                /\ toPage' = IF hasB /\ bs.active
                             THEN send(toPage, p, Msg("deactivate", << >>))
                             ELSE toPage
                /\ pendingSyncs' =
                      IF overlay THEN pendingSyncs
                      ELSE pendingSyncs \cup
                             { [pane |-> p, current |-> leaves[p].url,
                                urlChanged |-> FALSE] }
                /\ UNCHANGED leaves
                /\ layers' = reverse(layers, p)
                /\ attached' = attached \cup {p}
                /\ overlayStates' = MapSet(overlayStates, p, ~overlay)
                /\ delivered' = IF HasNullChild(root) THEN delivered
                                ELSE sendState(delivered, root, p)
                /\ lastOp' = keyOp
                /\ UNCHANGED << root, paneById, lastActivePaneId, nextId, paneCap,
                                pendingSplits, nudges, saveVars, windowOpen, searchStates,
                                typingStates, searchDebounceTimers, searchTimers, wsVars >>
           ELSE IF fn = "split"
           THEN /\ splitStart(p, p, splitDirOf(d.ran.arg), d.ran.arg)
                /\ UNCHANGED << toPage, pendingSyncs, leaves >>
           ELSE IF fn = "navigate"
           THEN /\ panesNavigate(p, p, d.ran.arg)
                /\ UNCHANGED << toPage, pendingSyncs, leaves >>
           ELSE IF fn = "resize"
           THEN /\ resize(p, p, d.ran.arg)
                /\ UNCHANGED << toPage, pendingSyncs, leaves >>
           ELSE IF fn = "close"
           THEN /\ close(p)
                /\ UNCHANGED << toPage, pendingSyncs, leaves >>
           ELSE IF fn = "switchByIndex"
           THEN /\ switchToWorkspaceByIndex(p, indexOf(d.ran.arg))
                /\ UNCHANGED << toPage, pendingSyncs, leaves >>
           ELSE \* scroll, mute, reload and history bindings act on the page
                \* only; blurPage and none change nothing in the main process
                /\ delivered' = IF fn \in {"none", "blurPage"} \/ HasNullChild(root)
                                THEN delivered
                                ELSE sendState(delivered, root, p)
                /\ lastOp' = keyOp
                /\ UNCHANGED << root, paneById, layers, attached, lastActivePaneId, nextId,
                                paneCap, pendingSplits, nudges, saveVars, windowOpen, mapVars,
                                wsVars, toPage, pendingSyncs, leaves >>
        \* what the handler saw and did, with the operation record of the binding
        /\ lastKey' = [pane |-> p, chord |-> buildKeybindString(input),
                       overlay |-> overlay, biscuits |-> hasB /\ bs.active,
                       typing |-> isTyping, typed |-> bs.typed, ran |-> d.ran,
                       prevented |-> d.prevented,
                       effect |-> effectOf(d.ran, overlay, canGo), canGo |-> canGo,
                       op |-> lastOp']

(* --------------------------- specification ---------------------------- *)
\* the key events the model sends
Plain(k) == Input(k, FALSE, FALSE, FALSE, FALSE)
Shift(k) == Input(k, FALSE, TRUE, FALSE, FALSE)
Control(k) == Input(k, FALSE, FALSE, FALSE, TRUE)
Meta(k) == Input(k, TRUE, FALSE, FALSE, FALSE)
MetaShift(k) == Input(k, TRUE, TRUE, FALSE, FALSE)

HintInputs ==
    { Plain("f"), Plain("a"), Plain("s"), Plain("y"), Plain("Escape"),
      Plain("Backspace"), Meta("w"), Meta("r") }
ModeInputs ==
    { Plain("j"), Shift("G"), Shift("L"), Control("l"), Meta("l"), Meta("w"),
      MetaShift("L"), Meta("1"), Meta("r"), Meta("[") }
KeyInputs == HintInputs \cup ModeInputs

Next ==
    \/ \E id \in Ids \cup {UnknownId}, a \in SplitArgs : OnPaneSplit(id, a[1], a[2])
    \/ \E p \in pendingSplits : SplitFinish(p)
    \/ \E id \in Ids \cup {UnknownId} : Close(id)
    \/ \E id \in Ids \cup {UnknownId}, d \in Dirs : OnPaneResize(id, d)
    \/ \E id \in Ids : HandlePaneActive(id)
    \/ \E t \in workspaces : SwitchToWorkspace(t)
    \/ \E i \in 1..Len(pendingSwitches) : SwitchAfterCapture(i)
    \/ \E i \in 1..Len(pendingSwitches) : RestoreStep(i)
    \/ \E index \in -1..MaxIndex : HandleWorkspaceCreate(index)
    \/ \E index \in 0..MaxIndex : SwitchToWorkspaceByIndex(index)
    \/ \E c \in pendingCreates : CreateFinish(c)
    \/ \E t \in focusTimers : FocusTimer(t)
    \/ \E id \in Ids, d \in Dirs : OnPanesNavigate(id, d)
    \/ \E p \in paneById, input \in KeyInputs, canGo \in BOOLEAN : KeyDown(p, input, canGo)
    \/ \E p \in paneById, n \in TargetCounts : PageRecv(p, n)
    \/ \E p \in paneById, loading \in BOOLEAN, n \in TargetCounts :
          PageMutation(p, loading, n)
    \/ OnBiscuitsCompleted
    \/ \E p \in paneById, u \in {DefaultUrl, "u1", "data:"}, inPage \in BOOLEAN,
          drop \in BOOLEAN : HandleNavigation(p, u, inPage, drop)
    \/ \E s \in pendingSyncs, got \in {"match", "none", "error"} : SyncBroadcast(s, got)
    \/ \E p \in Ids, t \in BOOLEAN : HandleTypingUpdate(p, t)
    \/ \E p \in paneById, q \in Queries : HandleSearchInput(p, q)
    \/ \E p \in paneById, q \in Queries : HandleSearchSubmit(p, q)
    \/ \E p \in paneById : HandleSearchBlur(p)
    \/ \E id \in Ids \cup {UnknownId} : HandlePaneOverlay(id)
    \/ \E t \in searchTimers : ProcessSearchDebounced(t)
    \/ \E h \in timers : SaveTimerFire(h)
    \/ WindowClose

Spec == Init /\ [][Next]_vars


(* ------------------- the structural specification -------------------- *)
\* one workspace; split, close and resize requests and the resumption of
\* suspended splits, in every interleaving
TreeSplitArgs == { <<"vertical", "left">>, <<"horizontal", "down">> }

NextTree ==
    \/ \E id \in paneById, a \in TreeSplitArgs : OnPaneSplit(id, a[1], a[2])
    \/ \E p \in pendingSplits : SplitFinish(p)
    \/ \E id \in Ids \cup {UnknownId} : Close(id)
    \/ \E id \in paneById, d \in Dirs : OnPaneResize(id, d)

SpecTree == Init /\ [][NextTree]_vars

\* C1: after any sequence of split, close and resize requests the active
\* tree is null or a binary tree whose Split nodes all have two non-null
\* children
C1_TreeWellFormed == root = Null \/ WellFormed(root)

\* C3: the key sets of searchStates, overlayStates, biscuitStates,
\* typingStates and searchDebounceTimers are subsets of the live panes
C3_MapsWithinLivePanes ==
    /\ DOMAIN searchStates \subseteq paneById
    /\ DOMAIN overlayStates \subseteq paneById
    /\ DOMAIN biscuitStates \subseteq paneById
    /\ DOMAIN typingStates \subseteq paneById
    /\ DOMAIN searchDebounceTimers \subseteq paneById

\* C4: split, close and resize on an id that is not a leaf of the active
\* tree return their sentinel and leave the tree, the pane map and
\* lastActivePaneId as they were
C4_UnknownIdIsNoOp ==
    [][ (lastOp'.op \in {"split", "close", "resize"} /\ root # Null
           /\ lastOp'.id \notin LeafSet(root))
        => /\ root' = root
           /\ paneById' = paneById
           /\ lastActivePaneId' = lastActivePaneId
           /\ lastOp'.ret \in {"-1", "undefined"} ]_vars

\* C5: after a successful mutation every live pane has been sent the
\* PaneState list of the tree as it is after that mutation
C5_AllPanesHaveCurrentList ==
    (lastOp.op \in {"splitDone", "close", "resize"} /\ lastOp.ret \in {"ok", "closed"})
        => \A p \in paneById : delivered[p] = PaneList(root)

(* -------------------- the workspace specification -------------------- *)
\* one pane per workspace; create, switch and close requests and the
\* resumption of suspended creates and switches, in every interleaving
InitWs == InitWindow /\ paneCap = MaxWorkspaces /\ nudges = MaxNudges /\ call = NoCall

NextWs ==
    \/ \E index \in -1..MaxIndex : HandleWorkspaceCreate(index)
    \/ \E index \in 0..MaxIndex : SwitchToWorkspaceByIndex(index)
    \/ \E t \in workspaces : SwitchToWorkspace(t)
    \/ \E i \in 1..Len(pendingSwitches) : SwitchAfterCapture(i)
    \/ \E c \in pendingCreates : CreateFinish(c)
    \/ \E t \in focusTimers : FocusTimer(t)

SpecWs == InitWs /\ [][NextWs]_vars

\* no switchToWorkspace call is between its start and its return
NoSwitchInProgress ==
    /\ pendingSwitches = << >>
    /\ \A c \in pendingCreates : ~c.thenSwitch

\* C2: whenever no switch is in progress, exactly one workspace has
\* isActive = true and it is the one activeWorkspaceId names
C2_ExactlyOneActive ==
    (windowOpen /\ NoSwitchInProgress)
        => { w \in workspaces : wsObjs[w].isActive } = {activeWorkspaceId}

(* ----------------------- the hint specification ---------------------- *)
\* one pane; the hint-mode keys, the page's handlers of the hint messages
\* and the completion message, in every interleaving
InitHint == InitWindow /\ paneCap = 1 /\ nudges = MaxNudges /\ call = NoCall

NextHint ==
    \/ \E input \in HintInputs : KeyDown(1, input, FALSE)
    \/ \E n \in TargetCounts : PageRecv(1, n)
    \/ \E loading \in BOOLEAN, n \in TargetCounts : PageMutation(1, loading, n)
    \/ OnBiscuitsCompleted
    \/ \E inPage \in BOOLEAN, drop \in BOOLEAN :
          HandleNavigation(1, DefaultUrl, inPage, drop)
    \/ \E s \in pendingSyncs, got \in {"match", "none", "error"} : SyncBroadcast(s, got)

SpecHint == InitHint /\ [][NextHint]_vars

\* C6: with hint mode active and nothing typed, a hint character becomes
\* the typed string sent to the page; a page that handles a one-character
\* typed string equal to exactly one label activates that label's target
\* and no other, drops its overlay and sends the completion message; and
\* once the completion message is delivered the pane's hint state is
\* Normal (active = false, typed = "")
C6_HintSelectsExactlyOne ==
    /\ (lastOp.op = "key" /\ lastKey.ran.fn = "hintChar" /\ lastKey.typed = << >>)
          => /\ biscuitStates[lastKey.pane] =
                    [active |-> TRUE, typed |-> << lastKey.ran.arg >>]
             /\ toPage[lastKey.pane] # << >>
             /\ toPage[lastKey.pane][Len(toPage[lastKey.pane])] =
                    Msg("update", << lastKey.ran.arg >>)
    /\ (/\ lastOp.op = "page" /\ lastOp.ret = "update"
        /\ Len(lastPage.typed) = 1
        /\ Cardinality({ i \in 1..Len(lastPage.labels) :
                            lastPage.labels[i] = lastPage.typed }) = 1)
          => /\ lastPage.activated =
                    { i \in 1..Len(lastPage.labels) : lastPage.labels[i] = lastPage.typed }
             /\ ~page[lastPage.pane].overlay
             /\ toMain # << >>
             /\ toMain[Len(toMain)] = lastPage.pane
    /\ (lastOp.op = "biscuitsCompleted" /\ lastOp.id \in DOMAIN biscuitStates)
          => biscuitStates[lastOp.id] = NewBiscuitState

\* the completion message of a one-character selection has been delivered
C6_Witness ==
    /\ lastOp.op = "biscuitsCompleted"
    /\ lastPage.pane = lastOp.id
    /\ Len(lastPage.typed) = 1
    /\ lastPage.activated # {}
    /\ biscuitStates[lastOp.id] = NewBiscuitState

\* the global bindings the app handles in every mode
GlobalKeys ==
    { e \in paneKeys \cup appKeys :
        e[2].fn \in {"close", "resize", "switchByIndex", "reload", "goBack", "goForward"} }

\* C7: a global app-level binding (close, resize, workspace switch, reload,
\* history back / forward) pressed on a pane runs in every mode of the pane,
\* and a history binding with history to go to navigates
C7_GlobalBindingsInEveryMode ==
    \A e \in GlobalKeys :
        lastKey.chord = e[1]
            => /\ lastKey.ran = e[2]
               /\ lastKey.prevented
               /\ lastKey.canGo => lastKey.effect = e[2].fn

\* C11: in hint mode an unmodified single character that is no hint
\* character leaves hint mode and is then handled as in Normal mode: the
\* event is prevented exactly when Normal mode would prevent it
C11_NonHintKeyFallsThrough ==
    (/\ lastKey.pane # NoId /\ lastKey.biscuits
     /\ Len(lastKey.chord) = 1
     /\ lastKey.chord[1] \in SingleCharKeys \ SeqToSet(HINT_CHARS))
        => lastKey.prevented =
              dispatch(lastKey.overlay, TRUE, NewBiscuitState, lastKey.typing,
                       Plain(lastKey.chord[1])).prevented

(* ----------------------- the mode specification ---------------------- *)
\* key events on the panes of the active tree in every mode (typing,
\* overlay open, hint mode), with the search handlers of the overlay
MaxKeyPanes == 2
InitKeys == InitWindow /\ paneCap = MaxKeyPanes /\ nudges = MaxNudges /\ call = NoCall

NextKeys ==
    \/ \E p \in paneById, input \in ModeInputs, canGo \in BOOLEAN : KeyDown(p, input, canGo)
    \/ \E p \in pendingSplits : SplitFinish(p)
    \/ \E t \in focusTimers : FocusTimer(t)
    \/ \E s \in pendingSyncs, got \in {"match", "none", "error"} : SyncBroadcast(s, got)
    \/ \E p \in paneById, t \in BOOLEAN : HandleTypingUpdate(p, t)
    \/ \E p \in paneById, q \in Queries : HandleSearchSubmit(p, q)
    \/ \E p \in paneById : HandleSearchBlur(p)

SpecKeys == InitKeys /\ [][NextKeys]_vars

\* the binding a chord has in some mode, and the modifiers of a chord
BindingOf(chord) == lookup(overlayKeys \cup paneKeys \cup appKeys, chord)
Modifiers(chord) == SeqToSet(SubSeq(chord, 1, Len(chord) - 1))

\* the last key event found its pane typing, overlay closed, hint mode off
TypingMode ==
    lastKey.pane # NoId /\ lastKey.typing /\ ~lastKey.overlay /\ ~lastKey.biscuits

OpOf(fn) ==
    IF fn = "close" THEN {"close"}
    ELSE IF fn = "resize" THEN {"resize"}
    ELSE IF fn = "split" THEN {"split"}
    ELSE {"switch", "create"}

\* C9 as stated: while a pane's overlay is open the page-scroll and
\* page-navigation keys are not dispatched, and split, close, resize and
\* workspace switch pressed on the pane are dispatched and take effect
C9_SplitDispatchedWithOverlay ==
    (lastKey.pane # NoId /\ lastKey.overlay)
        => /\ BindingOf(lastKey.chord).fn \in {"scroll", "scrollToTop", "scrollToBottom"}
                => lastKey.ran = NoBinding
           /\ BindingOf(lastKey.chord).fn \in {"split", "close", "resize", "switchByIndex"}
                => /\ lastKey.ran = BindingOf(lastKey.chord)
                   /\ lastKey.op.op \in OpOf(lastKey.ran.fn)

\* C9: while a pane's overlay is open no key of overlayKeys (scroll, hint
\* mode, mute, focus navigation and split) is dispatched and a history
\* binding navigates nowhere, and close, resize and workspace switch
\* pressed on the pane are dispatched and take effect
C9_OverlayKeepsCloseResizeSwitch ==
    (lastKey.pane # NoId /\ lastKey.overlay)
        => /\ lookup(overlayKeys, lastKey.chord) # NoBinding
                => lastKey.ran = NoBinding /\ ~lastKey.prevented
           /\ BindingOf(lastKey.chord).fn \in {"goBack", "goForward"}
                => lastKey.effect = "none"
           /\ BindingOf(lastKey.chord).fn \in {"close", "resize", "switchByIndex"}
                => /\ lastKey.ran = BindingOf(lastKey.chord)
                   /\ lastKey.prevented
                   /\ lastKey.op.op \in OpOf(lastKey.ran.fn)

\* a resize binding pressed on a pane with its overlay open moved a divider
C9_Witness ==
    /\ lastKey.overlay
    /\ lastKey.ran.fn = "resize"
    /\ lastKey.op.op = "resize"
    /\ lastKey.op.ret = "ok"

\* C10: with a pane's overlay open, search submit (for any query) and
\* search blur leave the pane with overlayStates false and the content
\* layer on top
C10_SubmitAndCancelCloseOverlay ==
    [][ \A p \in paneById :
          (/\ p \in DOMAIN overlayStates /\ overlayStates[p]
           /\ lastOp'.op \in {"searchSubmit", "searchBlur"} /\ lastOp'.id = p)
             => (~overlayStates'[p] /\ layers'[p] = "content") ]_vars

(* ------------------- the functions, applied alone -------------------- *)
\* columns of the rows getNeighbor is applied to
MaxColumns == 3
\* the largest width and height of the tiny content sizes
TinyView == 3

\* the trees getNeighbor is applied to: one leaf, a row of two, and three
\* rows whose right-hand leaves 2, 5 and 8 start at the column the sizes
\* s1, (s2, s3) and (s4, s5) give them; the sizes are ones that nudges of
\* 0.03 from 0.5 reach
NeighborTrees ==
    LET Row1(s1) == MkSplit(3, "vertical", s1, Leaf(1), Leaf(2))
        RowN(o, c, x) ==
            MkSplit(o, "vertical", c[1], Leaf(x),
                    MkSplit(o + 1, "vertical", c[2], Leaf(x + 1),
                            Leaf(x + MaxColumns - 1)))
        Rows(s1, c2, c3) ==
            MkSplit(1, "horizontal", SizeHalf, Row1(s1),
                    MkSplit(2, "horizontal", SizeHalf,
                            RowN(4, c2, MaxColumns), RowN(6, c3, 2 * MaxColumns)))
        ColumnSizes == { 26, SizeHalf }
        ColumnPairs == { << 14, 14 >>, << 11, 17 >>, << SizeHalf, SizeHalf >> }
    IN  { Leaf(1), Row1(SizeHalf) }
            \cup { Rows(s1, c2, c3) :
                     s1 \in ColumnSizes, c2 \in ColumnPairs, c3 \in ColumnPairs }

\* the numbers of targets getLabels is applied to: none up to two rounds of
\* the alphabet and one more, and around the number of two-character labels
LabelCounts ==
    (0..(2 * Len(HINT_CHARS) + 1))
       \cup { Len(HINT_CHARS) * Len(HINT_CHARS) + d : d \in {-1, 0, 1} }

\* a function about to be applied to its arguments
Pending(f, a) == [fn |-> f, arg |-> a, ret |-> NoId, done |-> FALSE]

\* the applications a run starts from. layout is applied to two-leaf
\* Splits in rects from the viewport down to ones narrower than the gutter,
\* and to nested Splits in the window-sized rects
InitFn ==
    LET Rects == { Rect(0, 0, 1000, ViewH), Viewport, Rect(7, 3, 61, 40) }
        SmallRects == { Rect(x, 2, w, h) : x \in {0, 7}, w \in 0..2, h \in 0..2 }
        Sizes == { SizeMin, 47, SizeHalf, SizeMax }
        SplitDirs == { "vertical", "horizontal" }
        Pair(d, z) == MkSplit(1, d, z, Leaf(1), Leaf(2))
        Slots == { Leaf(1), Leaf(2), Leaf(3), Pair("vertical", SizeHalf) }
        Page(i, u, t) == [kind |-> "leaf", id |-> i, url |-> u, title |-> t]
        Urls == { "https://chat.com", "https://staging.onplug.io" }
        Titles == { "", "Plug" }
        Nested(d, e, z, side) ==
            IF side = "a" THEN MkSplit(2, d, z, MkSplit(1, e, SizeHalf, Leaf(1), Leaf(2)), Leaf(3))
            ELSE MkSplit(2, d, z, Leaf(3), MkSplit(1, e, SizeHalf, Leaf(1), Leaf(2)))
        \* three Splits of one direction at the smallest size, one in the other
        Chain(d) ==
            MkSplit(3, d, SizeMin,
                    MkSplit(2, d, SizeMin, MkSplit(1, d, SizeMin, Leaf(1), Leaf(2)), Leaf(3)),
                    Leaf(4))
        BoundsTrees ==
            { Leaf(1) } \cup { Pair(d, z) : d \in SplitDirs, z \in Sizes }
               \cup { Nested(d, e, z, side) : d \in SplitDirs, e \in SplitDirs,
                                              z \in Sizes, side \in {"a", "b"} }
               \cup { Chain(d) : d \in SplitDirs }
        \* content sizes: the window's, a narrower one, and tiny ones
        BoundsViews ==
            { << ViewW, ViewH >>, << 1000, ViewH >> } \cup ((0..TinyView) \X (0..TinyView))
    IN  /\ InitWindow
        /\ paneCap = MaxPanes
        /\ nudges = MaxNudges
        /\ call \in
              { Pending("getNeighbor",
                        [list |-> layout(t, Viewport), cur |-> cur, dir |-> dir]) :
                  t \in NeighborTrees, cur \in 1..(3 * MaxColumns), dir \in Dirs }
              \cup { Pending("layout", [node |-> Pair(d, z), rect |-> r]) :
                       d \in SplitDirs, z \in Sizes, r \in Rects \cup SmallRects }
              \cup { Pending("layout", [node |-> Nested(d, e, z, side), rect |-> r]) :
                       d \in SplitDirs, e \in SplitDirs, z \in Sizes,
                       side \in {"a", "b"}, r \in Rects }
              \cup { Pending("replaceChild", [parent |-> MkSplit(4, d, SizeHalf, q[1], q[2]),
                                               prev |-> u, next |-> v]) :
                       d \in SplitDirs, q \in { s \in Slots \X Slots : s[1] # s[2] },
                       u \in Slots, v \in Slots }
              \cup { Pending("setLeafBounds", [node |-> n, w |-> v[1], h |-> v[2]]) :
                       n \in BoundsTrees, v \in BoundsViews }
              \cup { Pending("getLabels", [n |-> n]) : n \in LabelCounts }
              \cup { Pending("restoreNode", [node |-> Page(1, u, t)]) :
                       u \in Urls, t \in Titles }
              \cup { Pending("restoreNode",
                             [node |-> MkSplit(1, d, z, Page(2, u, t), Page(1, v, ""))]) :
                       d \in SplitDirs, z \in Sizes, u \in Urls, v \in Urls, t \in Titles }
              \cup { Pending("restoreNode",
                             [node |-> MkSplit(5, d, z,
                                               MkSplit(3, e, 47, Page(4, u, t), Page(2, u, "")),
                                               Page(1, v, t))]) :
                       d \in SplitDirs, e \in SplitDirs, z \in Sizes,
                       u \in Urls, v \in Urls, t \in Titles }

\* the pending application of f returns r
Apply(f, r) ==
    /\ call.fn = f /\ ~call.done
    /\ call' = [call EXCEPT !.done = TRUE, !.ret = r]
    /\ lastOp' = [op |-> "call", id |-> NoId, ret |-> "ok"]
    /\ UNCHANGED << winVars, mapVars, wsVars, lastKey, keys, page, toPage, toMain,
                    lastPage, pendingSyncs, leaves >>

\* getNeighbor(currentId, dir) on the list getAll() returns
GetNeighborCall ==
    Apply("getNeighbor", getNeighbor(call.arg.list, call.arg.cur, call.arg.dir))

\* layout(win, node, rect, out) filling out
LayoutCall == Apply("layout", layout(call.arg.node, call.arg.rect))

\* restoreNode on what serializeNode made of the tree
RestoreCall == Apply("restoreNode", restoreNode(serializeNode(call.arg.node), 1))

\* sendState on a window of content size w x h: layout with setLeafBounds
LayoutBoundsCall ==
    Apply("setLeafBounds", BoundsList(call.arg.node, call.arg.w, call.arg.h))

\* getLabels(targets.length) in makeOverlay
GetLabelsCall == Apply("getLabels", getLabels(call.arg.n))

\* replaceChild(parent, prev, next): the Split object afterwards
ReplaceChildCall ==
    Apply("replaceChild",
          replaceChildIn(call.arg.parent, call.arg.parent.oid, call.arg.prev, call.arg.next))

NextFn ==
    \/ GetNeighborCall
    \/ LayoutCall
    \/ RestoreCall
    \/ ReplaceChildCall
    \/ LayoutBoundsCall
    \/ GetLabelsCall

SpecFn == InitFn /\ [][NextFn]_vars

\* C12: for a leaf currentId of the list, getNeighbor returns the overlap
\* candidate (centre strictly on the requested side, orthogonal extent
\* overlapping) minimal under (primary distance, orthogonal distance, id);
\* with no overlap candidate the correctly-sided leaf minimal under (angle
\* = orthogonal / primary, euclidean distance, id); null exactly when no
\* other leaf's centre is on the requested side; and never currentId.
\* Distances are doubled; the primary distance of a correctly-sided leaf is
\* positive, so angles are compared by cross-multiplication
C12_NeighborRanking ==
    (call.fn = "getNeighbor" /\ call.done
       /\ \E k \in 1..Len(call.arg.list) : call.arg.list[k].id = call.arg.cur)
        => LET list == call.arg.list
               dir == call.arg.dir
               horizontal == dir \in {"left", "right"}
               cur == list[CHOOSE k \in 1..Len(list) : list[k].id = call.arg.cur].rect
               side == { i \in 1..Len(list) :
                           /\ list[i].id # call.arg.cur
                           /\ IF dir = "left" THEN Cx2(list[i].rect) < Cx2(cur)
                              ELSE IF dir = "right" THEN Cx2(list[i].rect) > Cx2(cur)
                              ELSE IF dir = "up" THEN Cy2(list[i].rect) < Cy2(cur)
                              ELSE Cy2(list[i].rect) > Cy2(cur) }
               over == { i \in side :
                           IF horizontal
                           THEN /\ list[i].rect.y < cur.y + cur.height
                                /\ cur.y < list[i].rect.y + list[i].rect.height
                           ELSE /\ list[i].rect.x < cur.x + cur.width
                                /\ cur.x < list[i].rect.x + list[i].rect.width }
               dx(i) == Cx2(list[i].rect) - Cx2(cur)
               dy(i) == Cy2(list[i].rect) - Cy2(cur)
               pr(i) == IF horizontal THEN Abs(dx(i)) ELSE Abs(dy(i))
               or(i) == IF horizontal THEN Abs(dy(i)) ELSE Abs(dx(i))
               d2(i) == pr(i) * pr(i) + or(i) * or(i)
               primaryBefore(i, j) ==
                   \/ pr(i) < pr(j)
                   \/ /\ pr(i) = pr(j)
                      /\ (or(i) < or(j) \/ (or(i) = or(j) /\ list[i].id <= list[j].id))
               angleBefore(i, j) ==
                   \/ or(i) * pr(j) < or(j) * pr(i)
                   \/ /\ or(i) * pr(j) = or(j) * pr(i)
                      /\ (d2(i) < d2(j) \/ (d2(i) = d2(j) /\ list[i].id <= list[j].id))
           IN  /\ call.ret # call.arg.cur
               /\ (call.ret = NoId) <=> (side = {})
               /\ over # {}
                    => \E i \in over : /\ call.ret = list[i].id
                                       /\ \A j \in over : primaryBefore(i, j)
               /\ (over = {} /\ side # {})
                    => \E i \in side : /\ call.ret = list[i].id
                                       /\ \A j \in side : angleBefore(i, j)


\* C13: a Split laid out in a rect of extent E along its axis gives its
\* children (the boxes around the rects of a's and of b's leaves) the
\* parent's orthogonal start and extent, starts child b exactly one gutter
\* after child a ends, makes extent(a) + PANE_GUTTER + extent(b) = E with a
\* at the parent's start, and lets no point lie in both children; ratio 0.5
\* vertical in 1000x800 gives widths 499 and 500 at height 800
C13_LayoutConserves ==
    (call.fn = "layout" /\ call.done)
        => LET node == call.arg.node
               rect == call.arg.rect
               out == call.ret
               na == Len(LeafSeq(node.a))
               Box(lo, hi) ==
                   LET x0 == CHOOSE v \in { out[i].rect.x : i \in lo..hi } :
                                 \A i \in lo..hi : v <= out[i].rect.x
                       y0 == CHOOSE v \in { out[i].rect.y : i \in lo..hi } :
                                 \A i \in lo..hi : v <= out[i].rect.y
                       x1 == CHOOSE v \in { out[i].rect.x + out[i].rect.width : i \in lo..hi } :
                                 \A i \in lo..hi : v >= out[i].rect.x + out[i].rect.width
                       y1 == CHOOSE v \in { out[i].rect.y + out[i].rect.height : i \in lo..hi } :
                                 \A i \in lo..hi : v >= out[i].rect.y + out[i].rect.height
                   IN  Rect(x0, y0, x1 - x0, y1 - y0)
               A == Box(1, na)
               B == Box(na + 1, Len(out))
               vertical == node.dir = "vertical"
               start(r) == IF vertical THEN r.x ELSE r.y
               extent(r) == IF vertical THEN r.width ELSE r.height
               ostart(r) == IF vertical THEN r.y ELSE r.x
               oextent(r) == IF vertical THEN r.height ELSE r.width
           IN  /\ Len(out) = Len(LeafSeq(node))
               /\ ostart(A) = ostart(rect) /\ ostart(B) = ostart(rect)
               /\ oextent(A) = oextent(rect) /\ oextent(B) = oextent(rect)
               /\ start(A) = start(rect)
               /\ start(B) = start(A) + extent(A) + PANE_GUTTER
               /\ extent(A) + PANE_GUTTER + extent(B) = extent(rect)
               /\ ~ \E v \in start(rect)..(start(rect) + extent(rect)) :
                       /\ start(A) <= v /\ v < start(A) + extent(A)
                       /\ start(B) <= v /\ v < start(B) + extent(B)
               /\ (vertical /\ node.size = SizeHalf /\ na = 1 /\ Len(out) = 2
                      /\ rect = Rect(0, 0, 1000, ViewH))
                     => /\ out[1].rect.width = 499 /\ out[2].rect.width = 500
                        /\ out[1].rect.height = ViewH /\ out[2].rect.height = ViewH

\* the 1000x800 example has been laid out
C13_Witness ==
    /\ call.fn = "layout" /\ call.done
    /\ call.arg.rect = Rect(0, 0, 1000, ViewH)
    /\ call.arg.node = MkSplit(1, "vertical", SizeHalf, Leaf(1), Leaf(2))
    /\ call.ret = << [id |-> 1, rect |-> Rect(0, 0, 499, ViewH)],
                     [id |-> 2, rect |-> Rect(500, 0, 500, ViewH)] >>

(* ----------------------- the resize specification --------------------- *)
\* resize requests explored in one run of the resize specification: from
\* 0.5 the fifteenth nudge of 0.03 reaches a bound
MaxResizes == 16
\* the last pane id a run that nests two Splits may allocate
NudgePanes == 3

\* the sizes of the Splits of a tree
RECURSIVE SplitSizes(_)
SplitSizes(node) ==
    IF node.kind # "split" THEN {}
    ELSE {node.size} \cup SplitSizes(node.a) \cup SplitSizes(node.b)

\* one workspace of at most two panes; split, close and resize requests
InitResize == InitWindow /\ paneCap = 2 /\ nudges = MaxResizes /\ call = NoCall

NextResize ==
    \/ \E id \in paneById, a \in TreeSplitArgs : OnPaneSplit(id, a[1], a[2])
    \/ \E p \in pendingSplits : SplitFinish(p)
    \/ \E id \in Ids : Close(id)
    \/ \E id \in paneById, d \in Dirs : OnPaneResize(id, d)

SpecResize == InitResize /\ [][NextResize]_vars

\* C14: after any split, close and resize requests every Split's size is
\* within [0.05, 0.95], and a resize request that pushes a Split sitting at
\* a bound further in that direction leaves the tree as it is
C14_SizeStaysClamped ==
    /\ [](\A z \in SplitSizes(root) : SizeMin <= z /\ z <= SizeMax)
    /\ [][ \A id \in Ids, d \in Dirs :
             OnPaneResize(id, d)
               => LET target == IF lastActivePaneId # NoId THEN lastActivePaneId ELSE id
                      axis == IF d \in {"left", "right"} THEN "vertical" ELSE "horizontal"
                      found == findSplitForResize(root, target, axis)
                      grows == (d \in {"right", "down"}) = found.isInA
                  IN  (/\ root # Null /\ found.oid # 0
                       /\ \/ found.size = SizeMax /\ grows
                          \/ found.size = SizeMin /\ ~grows)
                        => root' = root ]_vars

\* a Split at the upper bound has been nudged and is still there
C14_Witness ==
    /\ lastOp = [op |-> "resize", id |-> lastActivePaneId, ret |-> "ok"]
    /\ nudges = 0
    /\ SplitSizes(root) = {SizeMax}

(* ------------------------ split, then close --------------------------- *)
\* C15: when split(t) completes on the tree it started on (t is a leaf and
\* its parent is the one split() found), the new leaf n is in the tree, and
\* removing n with replaceNode gives the tree as it was before: the same
\* shape, directions, sizes and leaf ids in the same positions, the Split
\* objects apart
C15_SplitThenCloseIsIdentity ==
    [][ \A p \in pendingSplits :
          (/\ p \notin pendingSplits'
           /\ lastOp' = [op |-> "splitDone", id |-> p.id, ret |-> "ok"]
           /\ p.id \in LeafSet(root)
           /\ findParent(root, p.id) = p.parent)
            => LET RECURSIVE Strip(_)
                   Strip(node) ==
                       IF node.kind # "split" THEN node
                       ELSE MkSplit(0, node.dir, node.size, Strip(node.a), Strip(node.b))
               IN  /\ p.other \in LeafSet(root') \ LeafSet(root)
                   /\ Len(LeafSeq(root')) = Len(LeafSeq(root)) + 1
                   /\ Strip(replaceNode(root', p.other, OidSet(root'))) = Strip(root) ]_vars

\* the fourth pane has been split into a tree that holds every pane made
C15_Witness ==
    /\ lastOp.op = "splitDone" /\ lastOp.ret = "ok"
    /\ LeafSet(root) = Ids
    /\ Len(LeafSeq(root)) = MaxPanes
    /\ lastActivePaneId = MaxPanes

InitLoaded ==
    LET Saved(d, z, x, y) == [kind |-> "split", dir |-> d, size |-> z, a |-> x, b |-> y]
        SavedRoots ==
            { Leaf(2), Saved("vertical", SizeHalf, Leaf(2), Leaf(3)),
              Saved("horizontal", 47, Leaf(3),
                    Saved("vertical", SizeHalf, Leaf(2), Leaf(4))) }
    IN  /\ InitPanes
        /\ paneCap = MaxPanes /\ nudges = MaxNudges /\ call = NoCall
        /\ workspaces = {1, 2}
        /\ nextWs = 3
        /\ \E node \in SavedRoots :
              wsObjs = [w \in {1, 2} |->
                          IF w = 1
                          THEN [index |-> 0, root |-> Leaf(1), serializedRoot |-> Null,
                                lastActivePaneId |-> 1, isActive |-> TRUE]
                          ELSE [index |-> 1, root |-> Null, serializedRoot |-> node,
                                lastActivePaneId |-> 2, isActive |-> FALSE]]

\* switches by id, the resumption of their awaits, the focus timers, and
\* close requests
NextLoaded ==
    \/ \E t \in workspaces : SwitchToWorkspace(t)
    \/ \E i \in 1..Len(pendingSwitches) : SwitchAfterCapture(i)
    \/ \E i \in 1..Len(pendingSwitches) : RestoreStep(i)
    \/ \E t \in focusTimers : FocusTimer(t)
    \/ \E id \in paneById : Close(id)

SpecLoaded == InitLoaded /\ [][NextLoaded]_vars

\* C17: when switchToWorkspace to a workspace that held only a
\* serializedRoot returns, the workspace's root is the window's active
\* tree, its leaves are the serialized leaves with their ids in their
\* order, every one of them has its pane controller, and serializedRoot is
\* null
C17_RestoredOnSwitch ==
    [][ \A i \in 1..Len(pendingSwitches) :
          (/\ pendingSwitches[i].stage = "restore"
           /\ pendingSwitches' = without(pendingSwitches, i)
           /\ lastOp' = [op |-> "restoreDone", id |-> pendingSwitches[i].target,
                         ret |-> "true"])
            => LET t == pendingSwitches[i].target
               IN  /\ wsObjs'[t].serializedRoot = Null
                   /\ wsObjs'[t].root = root'
                   /\ LeafSeq(root') = LeafSeq(pendingSwitches[i].node)
                   /\ LeafSet(root') \subseteq paneById' ]_vars

(* ------------------- switching away and back again -------------------- *)
\* C18: from the first workspace (leaf 1, last-active pane 1) the
\* switch-by-index binding creates a second workspace on demand and
\* switches to it, and one more switch leads back to the first; when that
\* switch has returned the first workspace's pane is alive, its tree is the
\* active tree again and the last-active pane is pane 1 as before
C18_SwitchBackRestores ==
    (/\ windowOpen
     /\ nextWs = 3 /\ switches = 1
     /\ pendingCreates = {} /\ pendingSwitches = << >>
     /\ lastOp = [op |-> "switchDone", id |-> 1, ret |-> "true"])
        => /\ 1 \in paneById
           /\ wsObjs[1].root = Leaf(1)
           /\ root = Leaf(1)
           /\ lastActivePaneId = 1

(* ------------------- the workspace-cap specification ------------------ *)
\* workspaces loaded next to the first one before the run starts
MaxLoaded == 7

\* the window after init() with a saved state of MaxLoaded or MaxLoaded + 1
\* workspaces: the first is active around the window's root, the others
\* hold a serialized leaf each; two more panes can be made
InitFull ==
    /\ InitPanes
    /\ paneCap = 3 /\ nudges = MaxNudges /\ call = NoCall
    /\ nextWs = MaxWorkspaces - 1
    /\ \E n \in { MaxLoaded, MaxLoaded + 1 } :
          /\ workspaces = 1..n
          /\ wsObjs = [w \in 1..n |->
                          IF w = 1
                          THEN [index |-> 0, root |-> Leaf(1), serializedRoot |-> Null,
                                lastActivePaneId |-> 1, isActive |-> TRUE]
                          ELSE [index |-> w - 1, root |-> Null,
                                serializedRoot |-> Leaf(MaxPanes + w),
                                lastActivePaneId |-> MaxPanes + w, isActive |-> FALSE]]

\* createWorkspace calls, by "workspace:create" with and without an index,
\* and the resumption of their awaits
NextFull ==
    \/ \E index \in -1..MaxIndex : HandleWorkspaceCreate(index)
    \/ \E c \in pendingCreates : CreateFinish(c)

SpecFull == InitFull /\ [][NextFull]_vars

\* C19: while the window is open there are between 1 and 9 workspaces,
\* whatever the interleaving of the createWorkspace calls
C19_WorkspaceCountBounded ==
    windowOpen => /\ 1 <= Cardinality(workspaces)
                  /\ Cardinality(workspaces) <= maxWorkspaces

NextSync ==
    \/ \E u \in {"u1", "u2", "data:"}, inPage \in BOOLEAN :
          HandleNavigation(1, u, inPage, FALSE)
    \/ \E s \in pendingSyncs, got \in {"match", "none", "error"} : SyncBroadcast(s, got)

SpecSync == InitHint /\ [][NextSync]_vars

\* C21: when a sync() that was started for url u completes after the
\* leaf's url has become another url, nothing it extracted is written to
\* the leaf
C21_StaleSyncDiscarded ==
    [][ \A s \in pendingSyncs :
          (/\ pendingSyncs' = pendingSyncs \ {s}
           /\ lastOp'.op = "sync"
           /\ s.urlChanged
           /\ s.current # leaves[s.pane].url)
            => leaves' = leaves ]_vars

(* ------------------------ the save specification ---------------------- *)
\* two panes at most: splits, closes, a resize, focus changes, the save
\* timeout firing, and the user closing the window
NextSave ==
    \/ \E id \in paneById, a \in TreeSplitArgs : OnPaneSplit(id, a[1], a[2])
    \/ \E p \in pendingSplits : SplitFinish(p)
    \/ \E id \in paneById : Close(id)
    \/ \E id \in paneById, d \in {"left", "right"} : OnPaneResize(id, d)
    \/ \E id \in paneById : HandlePaneActive(id)
    \/ \E h \in timers : SaveTimerFire(h)
    \/ WindowClose

SpecSave == InitKeys /\ [][NextSave]_vars

\* C22: on every step that closes the window, whichever way, the pending
\* save timeout is cancelled and the state the window had when it began to
\* close is what is persisted
C22_FlushOnClose ==
    [][ (windowOpen /\ ~windowOpen')
          => /\ timers' = {}
             /\ persisted' = [root |-> root, lastActivePaneId |-> lastActivePaneId]
      ]_vars

\* C30: at most one save timeout is armed, and it is the one whose handle
\* the window holds (a cleared timeout is gone and cannot run); when the
\* timeout fires none is left and what is persisted is the state of that
\* moment, so the mutations since the previous save give one save, made
\* after the last of them
C30_OneSaveTimer ==
    /\ [](Cardinality(timers) <= 1 /\ timers \subseteq {saveDebounceTimer})
    /\ [][ lastOp'.op = "save"
             => /\ timers # {} /\ timers' = {}
                /\ root # Null
                     => persisted' = [root |-> root,
                                      lastActivePaneId |-> lastActivePaneId] ]_vars

\* a split and a resize (two debouncedSave calls) have been followed by a
\* save of the resized two-pane tree, and no timeout is armed
C30_Witness ==
    /\ lastOp = [op |-> "save", id |-> NoId, ret |-> "ok"]
    /\ timers = {}
    /\ root.kind = "split" /\ root.size # SizeHalf
    /\ persisted = [root |-> root, lastActivePaneId |-> lastActivePaneId]

(* ------------------------ debounced search input --------------------- *)
\* the inputs of the scenario: two prefixes and the final value
SearchInputs == {"exa", " ", "example.com"}

NextSearch ==
    \/ \E id \in paneById, a \in TreeSplitArgs : OnPaneSplit(id, a[1], a[2])
    \/ \E s \in pendingSplits : SplitFinish(s)
    \/ \E p \in paneById, q \in SearchInputs : HandleSearchInput(p, q)
    \/ \E p \in paneById, q \in SearchInputs : HandleSearchSubmit(p, q)
    \/ \E t \in searchTimers : ProcessSearchDebounced(t)
    \/ \E id \in paneById : Close(id)

SpecSearch == InitKeys /\ [][NextSearch]_vars

\* the armed search timeouts of a pane
armedFor(T, p) == { t \in T : t.pane = p }

\* C23: after a search input exactly one timeout is armed for the pane and it
\* holds that input's query, so a run of inputs ends in one debounced attempt
\* with the final value; a timeout that fires was the pane's only one; after
\* a submit, and after the pane was closed, no timeout is armed for the pane
C23_DebouncedSearch ==
    [][ /\ lastOp'.op = "searchInput" =>
             /\ Cardinality(armedFor(searchTimers', lastOp'.id)) = 1
             /\ \A t \in armedFor(searchTimers', lastOp'.id) :
                    t.query = searchStates'[lastOp'.id].query
        /\ lastOp'.op = "searchDebounced" =>
             /\ Cardinality(armedFor(searchTimers, lastOp'.id)) = 1
             /\ armedFor(searchTimers', lastOp'.id) = {}
        /\ lastOp'.op = "searchSubmit" => armedFor(searchTimers', lastOp'.id) = {}
        /\ (lastOp'.op = "close" /\ lastOp'.ret = "closed") =>
             armedFor(searchTimers', lastOp'.id) = {} ]_vars

\* C23 witness: the pane's timeout fired and attempted the navigation with
\* the last input, and none is left armed
C23_Witness ==
    /\ lastOp = [op |-> "searchDebounced", id |-> 1, ret |-> "https://example.com"]
    /\ 1 \in DOMAIN searchStates
    /\ searchStates[1].query = "example.com"
    /\ searchTimers = {}

(* ------------------------------ allocId ------------------------------- *)
\* Math.floor(Math.random() * 1000) lies in 0..RandomRange-1
RandomRange == 1000
\* allocId(): Date.now() + Math.floor(Math.random() * 1000), for a clock
\* reading and a random draw
allocId(now, random) == now + random

\* two make() calls without a providedId, one after the other (two splits,
\* no close between them): the clock readings are milliseconds after the
\* first call's, and do not go back
InitAlloc ==
    LET Clock == { 0, 1, 2, RandomRange - 1, RandomRange }
        Draws == { 0, 1, 2, RandomRange - 2, RandomRange - 1 }
    IN  /\ InitWindow
        /\ paneCap = MaxPanes
        /\ nudges = MaxNudges
        /\ call \in { Pending("make", << [now |-> 0, random |-> r1],
                                        [now |-> t2, random |-> r2] >>) :
                        t2 \in Clock, r1 \in Draws, r2 \in Draws }

\* the ids of the two panes, both live when the second call returns
MakeCall ==
    Apply("make", [k \in 1..Len(call.arg) |->
                      allocId(call.arg[k].now, call.arg[k].random)])

NextAlloc == MakeCall

SpecAlloc == InitAlloc /\ [][NextAlloc]_vars

\* C24: two panes that are live at the same time have different ids
C24_LiveIdsDistinct ==
    (call.fn = "make" /\ call.done) => call.ret[1] # call.ret[2]

\* C25: every workspace has exactly one of root and serializedRoot, in every
\* state (those with a restore in progress included: both fields are
\* assigned after the last await of the restore); the active workspace has
\* its root, and a workspace that holds a serializedRoot is hidden
C25_OneRootPerWorkspace ==
    \A w \in workspaces :
       /\ (wsObjs[w].root = Null) # (wsObjs[w].serializedRoot = Null)
       /\ wsObjs[w].isActive => wsObjs[w].root # Null
       /\ wsObjs[w].serializedRoot # Null => ~wsObjs[w].isActive

\* C25 witness: the workspace loaded from the saved state was restored and
\* left again, and the one that was active at start is active; both hold a
\* tree and no serializedRoot
C25_Witness ==
    /\ workspaces = {1, 2}
    /\ pendingSwitches = << >>
    /\ wsObjs[1].isActive
    /\ wsObjs[2].root # Null /\ wsObjs[2].serializedRoot = Null
    /\ lastOp.op = "switchDone" /\ lastOp.id = 1

\* C26: every rect layout emits has x, y, width and height >= 0 and lies
\* inside the rect layout was given (the viewport, when sendState calls it)
C26_RectsInViewport ==
    (call.fn = "layout" /\ call.done)
        => \A i \in 1..Len(call.ret) :
              LET r == call.ret[i].rect
                  v == call.arg.rect
              IN  /\ r.x >= 0 /\ r.y >= 0 /\ r.width >= 0 /\ r.height >= 0
                  /\ v.x <= r.x /\ r.x + r.width <= v.x + v.width
                  /\ v.y <= r.y /\ r.y + r.height <= v.y + v.height

\* C27: in a list of two panes side by side getNeighbor(A, right) = B and
\* getNeighbor(B, left) = A; and when the pane getNeighbor returns for A in
\* direction d lies directly on that side of A (one gutter away) with the
\* same orthogonal start and extent, getNeighbor returns A for it in the
\* opposite direction
C27_NeighborAntiSymmetric ==
    (call.fn = "getNeighbor" /\ call.done)
        => LET list == call.arg.list
               d == call.arg.dir
               opposite == IF d = "left" THEN "right" ELSE IF d = "right" THEN "left"
                           ELSE IF d = "up" THEN "down" ELSE "up"
               rectOf(id) == list[CHOOSE i \in 1..Len(list) : list[i].id = id].rect
               RightOf(a, b) == /\ b.x = a.x + a.width + PANE_GUTTER
                                /\ b.y = a.y /\ b.height = a.height
               Below(a, b) == /\ b.y = a.y + a.height + PANE_GUTTER
                              /\ b.x = a.x /\ b.width = a.width
               Adjacent(a, b) == IF d = "right" THEN RightOf(a, b)
                                 ELSE IF d = "left" THEN RightOf(b, a)
                                 ELSE IF d = "down" THEN Below(a, b)
                                 ELSE Below(b, a)
           IN  /\ (Len(list) = 2 /\ RightOf(list[1].rect, list[2].rect))
                    => /\ (call.arg.cur = list[1].id /\ d = "right") => call.ret = list[2].id
                       /\ (call.arg.cur = list[2].id /\ d = "left") => call.ret = list[1].id
               /\ (/\ call.ret # NoId
                   /\ \E i \in 1..Len(list) : list[i].id = call.arg.cur
                   /\ Adjacent(rectOf(call.arg.cur), rectOf(call.ret)))
                    => getNeighbor(list, call.ret, opposite) = call.arg.cur

\* C27 witness: in the two-pane row getNeighbor was asked for the right
\* neighbour of the left pane and returned the right pane
C27_Witness ==
    /\ call.fn = "getNeighbor" /\ call.done
    /\ Len(call.arg.list) = 2
    /\ call.arg.cur = call.arg.list[1].id /\ call.arg.dir = "right"
    /\ call.ret = call.arg.list[2].id

\* C28: whenever no switch is in progress the panes whose views are
\* attached to the contentView are exactly the leaves of the window's active
\* tree, and the pane of a workspace createWorkspace is still making (its
\* first page loading) is not attached
C28_OnlyActiveAttached ==
    /\ (windowOpen /\ pendingSwitches = << >> /\ root # Null /\ ~HasNullChild(root))
          => attached = LeafSet(root)
    /\ \A c \in pendingCreates : c.pane \notin attached

\* C29: the workspaces' index values are pairwise distinct and each lies in
\* 0 .. maxWorkspaces - 1
C29_IndicesDistinct ==
    /\ \A a \in workspaces, b \in workspaces :
          a # b => wsObjs[a].index # wsObjs[b].index
    /\ \A a \in workspaces : wsObjs[a].index \in 0..(maxWorkspaces - 1)

\* C31: in every interleaving of split requests, their resumptions and
\* closes, each leaf id occurs at most once in the active tree, and every
\* live pane other than the new pane of a split still suspended is a leaf
\* of the tree: no leaf that was not closed disappears, and no pane a split
\* created is left outside the tree
C31_SplitsKeepLeaves ==
    (root # Null /\ ~HasNullChild(root))
        => /\ \A i \in 1..Len(LeafSeq(root)), j \in 1..Len(LeafSeq(root)) :
                 i # j => LeafSeq(root)[i] # LeafSeq(root)[j]
           /\ (paneById \ { p.other : p \in pendingSplits }) \subseteq LeafSet(root)

\* C32: while the window is open, lastActivePaneId is null or the id of a
\* leaf of the window's active tree
C32_LastActiveInTree ==
    (windowOpen /\ lastActivePaneId # NoId)
        => /\ root # Null
           /\ HasNullChild(root) \/ lastActivePaneId \in LeafSet(root)

(* --------------- switching to the workspace that is active ------------ *)
\* one workspace, two panes at most: splits, their resumptions, closes, and
\* workspace:switch requests, which can only name the active workspace
NextSame ==
    \/ \E id \in paneById, a \in TreeSplitArgs : OnPaneSplit(id, a[1], a[2])
    \/ \E p \in pendingSplits : SplitFinish(p)
    \/ \E id \in paneById : Close(id)
    \/ \E t \in workspaces : SwitchToWorkspace(t)
    \/ \E t \in focusTimers : FocusTimer(t)

SpecSame == InitKeys /\ [][NextSame]_vars

\* C33: switchToWorkspace for the workspace that is active leaves the
\* window's tree and lastActivePaneId as they were
C33_SwitchToActiveIsNoOp ==
    [][ (/\ lastOp'.op = "switch"
         /\ lastOp'.id = activeWorkspaceId
         /\ activeWorkspaceId \in workspaces)
            => /\ root' = root
               /\ lastActivePaneId' = lastActivePaneId ]_vars

\* C34: replaceChild on a Split whose two slots hold different nodes puts
\* next into the slot that holds prev and leaves the other slot as it was,
\* and leaves the Split unchanged when neither slot holds prev
C34_ReplaceChildFrame ==
    (call.fn = "replaceChild" /\ call.done)
        => LET parent == call.arg.parent
               prev == call.arg.prev
               next == call.arg.next
           IN  /\ parent.a = prev
                    => call.ret = [parent EXCEPT !.a = next]
               /\ parent.b = prev
                    => call.ret = [parent EXCEPT !.b = next]
               /\ (parent.a # prev /\ parent.b # prev)
                    => call.ret = parent

(* ----------------------- the overlay specification -------------------- *)
\* one pane: the overlay toggle and Escape, search submits and blurs,
\* pane:overlay requests, and the syncs the toggle starts
NextOverlay ==
    \/ \E p \in paneById, input \in {Meta("l"), Plain("Escape"), Plain("f")}, canGo \in BOOLEAN :
          KeyDown(p, input, canGo)
    \/ \E p \in paneById, q \in Queries : HandleSearchSubmit(p, q)
    \/ \E p \in paneById : HandleSearchBlur(p)
    \/ \E id \in paneById \cup {UnknownId} : HandlePaneOverlay(id)
    \/ \E s \in pendingSyncs, got \in {"match", "none", "error"} : SyncBroadcast(s, got)

SpecOverlay == InitHint /\ [][NextOverlay]_vars

\* C35: for every live pane, overlayStates says the overlay is open exactly
\* when the overlay is the pane's topmost layer
C35_OverlayStateIsTopLayer ==
    \A p \in paneById :
       (p \in DOMAIN overlayStates /\ p \in DOMAIN layers)
          => (overlayStates[p] <=> layers[p] = "overlay")


(* ------------------- which Split a resize changes --------------------- *)
\* the Splits on the path from node down to the leaf t, outermost first
RECURSIVE AncestorsOf(_, _)
AncestorsOf(node, t) ==
    IF node.kind # "split" THEN << >>
    ELSE IF containsNode(node.a, t) THEN << node >> \o AncestorsOf(node.a, t)
    ELSE IF containsNode(node.b, t) THEN << node >> \o AncestorsOf(node.b, t)
    ELSE << >>

\* a tree with the sizes of its Splits blanked: shape, directions, leaves
RECURSIVE Skeleton(_)
Skeleton(node) ==
    IF node.kind # "split" THEN node
    ELSE [node EXCEPT !.size = 0, !.a = Skeleton(node.a), !.b = Skeleton(node.b)]

\* the (Split, size) pairs of a tree
RECURSIVE SizePairs(_)
SizePairs(node) ==
    IF node.kind # "split" THEN {}
    ELSE {<< node.oid, node.size >>} \cup SizePairs(node.a) \cup SizePairs(node.b)

\* the Splits whose size differs between two trees of one shape
ChangedSplits(before, after) ==
    { q[1] : q \in SizePairs(before) \ SizePairs(after) }

axisOf(d) == IF d \in {"left", "right"} THEN "vertical" ELSE "horizontal"

\* the positions on the path to t whose Split has the axis of d
Matching(node, t, d) ==
    { i \in DOMAIN AncestorsOf(node, t) : AncestorsOf(node, t)[i].dir = axisOf(d) }

\* the deepest Split on the path to t that has the axis of d
Nearest(node, t, d) ==
    AncestorsOf(node, t)[CHOOSE i \in Matching(node, t, d) :
                            \A j \in Matching(node, t, d) : j <= i]

\* the directions the resize requests of these runs carry: one per axis
NudgeDirs == {"right", "up"}

\* three panes, so that a leaf can sit under two Splits, and enough
\* resize requests to walk a size from the middle to a bound
InitNudge == InitWindow /\ paneCap = NudgePanes /\ nudges = MaxResizes /\ call = NoCall

NextNudge ==
    \/ \E id \in paneById, a \in TreeSplitArgs : OnPaneSplit(id, a[1], a[2])
    \/ \E p \in pendingSplits : SplitFinish(p)
    \/ \E id \in paneById, d \in NudgeDirs : OnPaneResize(id, d)

SpecNudge == InitNudge /\ [][NextNudge]_vars

\* C36 as stated: a resize request for leaf t and direction d changes the
\* size of exactly one Split, the deepest one on the path to t with the axis
\* of d, and keeps every other size and the shape of the tree; with no such
\* Split the tree stays as it is
C36_ExactlyOneSizeChanges ==
    [][ \A id \in Ids, d \in Dirs :
          (OnPaneResize(id, d) /\ root # Null /\ ~HasNullChild(root))
            => LET t == IF lastActivePaneId # NoId THEN lastActivePaneId ELSE id
               IN  /\ Skeleton(root') = Skeleton(root)
                   /\ IF Matching(root, t, d) = {}
                      THEN root' = root
                      ELSE ChangedSplits(root, root') = {Nearest(root, t, d).oid} ]_vars

\* C36 amended: a resize request for leaf t and direction d changes no size
\* but that of the deepest Split on the path to t with the axis of d, which
\* moves by the step towards d and is clamped to [0.05, 0.95] (so a Split
\* already at the bound it is pushed against keeps its size as well); the
\* shape of the tree stays, and with no such Split the tree stays as it is
C36_OnlyNearestSizeMoves ==
    [][ \A id \in Ids, d \in Dirs :
          (OnPaneResize(id, d) /\ root # Null /\ ~HasNullChild(root))
            => LET t == IF lastActivePaneId # NoId THEN lastActivePaneId ELSE id
               IN  /\ Skeleton(root') = Skeleton(root)
                   /\ IF Matching(root, t, d) = {}
                      THEN root' = root
                      ELSE LET n == Nearest(root, t, d)
                               inA == containsNode(n.a, t)
                               towards == (d \in {"right", "down"}) = inA
                               moved == IF towards THEN Min(SizeMax, n.size + NudgeStep)
                                        ELSE Max(SizeMin, n.size - NudgeStep)
                           IN  /\ ChangedSplits(root, root') \subseteq {n.oid}
                               /\ << n.oid, moved >> \in SizePairs(root') ]_vars

\* a resize has just moved the inner of two vertical Splits above the
\* target and left the outer one at its size
C36_Witness ==
    /\ lastOp.op = "resize" /\ lastOp.ret = "ok"
    /\ root # Null /\ ~HasNullChild(root)
    /\ Len(AncestorsOf(root, lastOp.id)) = 2
    /\ \A i \in 1..2 : AncestorsOf(root, lastOp.id)[i].dir = "vertical"
    /\ AncestorsOf(root, lastOp.id)[1].size = SizeHalf
    /\ AncestorsOf(root, lastOp.id)[2].size # SizeHalf


(* -------------------- hint mode and the overlay ----------------------- *)
hintActive(p) == p \in DOMAIN biscuitStates /\ biscuitStates[p].active
overlayOpen(p) == p \in DOMAIN overlayStates /\ overlayStates[p]

NoEdges == [left |-> FALSE, right |-> FALSE, top |-> FALSE, bottom |-> FALSE]

\* per leaf, in a-before-b order: the edges of its rect that face another
\* pane (the sibling subtree of some Split above it), and whether every
\* Split above it was laid out in a rect with room for the gutter between
\* its children
RECURSIVE LeafEdges(_, _, _, _)
LeafEdges(node, rect, e, roomy) ==
    IF node.kind = "leaf" THEN << [id |-> node.id, inner |-> e, roomy |-> roomy] >>
    ELSE IF node.kind = "null" THEN << >>
    ELSE LET parts == layout(MkSplit(node.oid, node.dir, node.size, Leaf(1), Leaf(2)), rect)
             vertical == node.dir = "vertical"
             room == roomy /\ (IF vertical THEN rect.width ELSE rect.height) >= PANE_GUTTER
         IN  LeafEdges(node.a, parts[1].rect,
                       IF vertical THEN [e EXCEPT !.right = TRUE]
                       ELSE [e EXCEPT !.bottom = TRUE], room)
             \o LeafEdges(node.b, parts[2].rect,
                          IF vertical THEN [e EXCEPT !.left = TRUE]
                          ELSE [e EXCEPT !.top = TRUE], room)

G(inner) == IF inner THEN PANE_GUTTER ELSE 0

\* the bounds are the rect moved in by the gutter on the inner edges of e
\* and by nothing on the others
InsetOnInner(rect, bounds, e) ==
    /\ bounds.x = rect.x + G(e.left)
    /\ bounds.y = rect.y + G(e.top)
    /\ bounds.x + bounds.width = rect.x + rect.width - G(e.right)
    /\ bounds.y + bounds.height = rect.y + rect.height - G(e.bottom)

\* the applications of setLeafBounds that have returned, with the edges of
\* each leaf
BoundsDone == call.fn = "setLeafBounds" /\ call.done
BoundsEdges ==
    LeafEdges(call.arg.node, Rect(0, 0, call.arg.w, call.arg.h), NoEdges, TRUE)

\* C38 as stated: for every tree and viewport the bounds of each leaf are
\* its layout rect inset by the gutter on exactly the edges that face
\* another pane and by zero on the edges on the viewport boundary, and a
\* single leaf gets the whole viewport
C38_GutterOnInnerEdges ==
    BoundsDone =>
       /\ \A i \in DOMAIN call.ret :
             InsetOnInner(call.ret[i].rect, call.ret[i].bounds, BoundsEdges[i].inner)
       /\ call.arg.node.kind = "leaf"
             => call.ret[1].bounds = Rect(0, 0, call.arg.w, call.arg.h)

\* C38 amended: the same, for the leaves whose rect is at least as wide and
\* as high as the gutters of its inner edges together, under Splits whose
\* rects have room for the gutter between their children; for every leaf,
\* an edge that faces no other pane gets no gutter, the origin moves by the
\* gutter or not at all, and the extent is the rect's less the gutters
\* taken, cut off at 0; a single leaf gets the whole viewport
C38_GutterOnInnerEdgesWithRoom ==
    BoundsDone =>
       /\ Len(call.ret) = Len(BoundsEdges)
       /\ \A i \in DOMAIN call.ret :
             LET r == call.ret[i].rect
                 b == call.ret[i].bounds
                 e == BoundsEdges[i].inner
             IN  /\ call.ret[i].id = BoundsEdges[i].id
                 /\ (/\ BoundsEdges[i].roomy
                     /\ r.width >= G(e.left) + G(e.right)
                     /\ r.height >= G(e.top) + G(e.bottom)) => InsetOnInner(r, b, e)
                 /\ b.x - r.x \in {0, PANE_GUTTER} /\ b.y - r.y \in {0, PANE_GUTTER}
                 /\ ~e.left => b.x = r.x
                 /\ ~e.top => b.y = r.y
                 /\ ~e.right => b.width = Max(0, r.width - (b.x - r.x))
                 /\ ~e.bottom => b.height = Max(0, r.height - (b.y - r.y))
                 /\ b.width >= 0 /\ b.height >= 0
       /\ call.arg.node.kind = "leaf"
             => call.ret[1].bounds = Rect(0, 0, call.arg.w, call.arg.h)

\* a leaf between two panes in the window-sized viewport has got bounds one
\* gutter inside its rect on the left and on the right and none above or below
C38_Witness ==
    /\ BoundsDone
    /\ call.arg.w = ViewW /\ call.arg.h = ViewH
    /\ \E i \in DOMAIN call.ret :
          /\ BoundsEdges[i].inner = [NoEdges EXCEPT !.left = TRUE, !.right = TRUE]
          /\ call.ret[i].bounds.width = call.ret[i].rect.width - 2 * PANE_GUTTER
          /\ call.ret[i].bounds.width > 0
          /\ call.ret[i].bounds.height = ViewH



(* ------------------ hint state, window and page ----------------------- *)
\* C39: whenever no hint message is in flight for a pane (none queued to
\* its page, no completion queued to the window), biscuitStates of the pane
\* agrees with the page: active exactly when the page shows its hint
\* overlay, and the same typed string; also after a navigation and after
\* the page made its hints anew on a DOM mutation
C39_HintStateAgrees ==
    \A p \in paneById :
       (/\ p \in DOMAIN biscuitStates
        /\ toPage[p] = << >>
        /\ \A i \in DOMAIN toMain : toMain[i] # p)
          => /\ biscuitStates[p].active = page[p].overlay
             /\ biscuitStates[p].typed = page[p].typed



(* ------------------------- the hint labels ---------------------------- *)
\* a is b or the start of b
IsPrefix(a, b) == Len(a) <= Len(b) /\ SubSeq(b, 1, Len(a)) = a

\* C40: getLabels(n) returns n labels, each a non-empty string over the hint
\* alphabet, none equal to or the start of another
C40_LabelsDistinctPrefixFree ==
    (call.fn = "getLabels" /\ call.done) =>
       /\ Len(call.ret) = call.arg.n
       /\ \A i \in DOMAIN call.ret :
             /\ call.ret[i] # << >>
             /\ \A k \in DOMAIN call.ret[i] : call.ret[i][k] \in SeqToSet(HINT_CHARS)
             /\ \A j \in DOMAIN call.ret : i # j => ~IsPrefix(call.ret[i], call.ret[j])


=========================================================================
